---- MODULE Spec2Model ----
(***************************************************************************)
(* Engagement engine of the video backend: ratings, comments and likes     *)
(* embedded in the Video document (src/src/controllers/videoController.ts, *)
(* src/src/models/Video.ts), the accounts with their favorites and liked   *)
(* videos (src/src/models/User.ts, the user controller,                    *)
(* src/src/controllers/authController.ts), behind the JWT gate             *)
(* (src/src/middleware/auth.ts).                                           *)
(*                                                                         *)
(* Steps.  A handler is an async function: it runs without interruption    *)
(* from one await on the database to the next, and other requests are      *)
(* served while it waits.  There is one action for each such stretch.  The *)
(* action whose name ends in Req is the arrival of an HTTP request: the    *)
(* auth middleware with its User.findById when the route has one, then the *)
(* handler up to its first await on the store (a handler without the       *)
(* middleware includes the answer of that first query).  The actions named *)
(* after the awaited call (FindVideo, FindUser, Save, ...) take the answer *)
(* of that call and run the handler up to its next await or to its         *)
(* res.json.  calls[c] is an invocation in flight: its position, its       *)
(* request, the documents it has loaded and what it is about to save.      *)
(* req is the request served by the last step and res its answer, with     *)
(* status 0 as long as the handler has not answered.                       *)
(*                                                                         *)
(* Saves.  save() sends the paths the invocation has modified, not the     *)
(* document: a push to an array as $push of the new element, an assignment *)
(* to a field of an array element as a positional $set that requires the   *)
(* version of the document to be the loaded one, a splice or a new array   *)
(* as $set of the whole array that requires it too.  A push and a change   *)
(* of length increment the version; the flag `stale` of an invocation says *)
(* that the version of the document it loaded has been incremented since.  *)
(* A save refused for its version throws, and the catch answers 500.  The  *)
(* unique indexes on email and pexelsId are enforced by the insert or      *)
(* update itself.                                                          *)
(*                                                                         *)
(* Specifications.  The contract of one request is checked with requests   *)
(* served one at a time (a request arrives when none is in flight); the    *)
(* specifications SpecRatingSteps, SpecLikeSteps, SpecAccounts and         *)
(* SpecReset let requests overlap.  Counters are capped in the next-state  *)
(* relations, not in the actions.                                          *)
(*                                                                         *)
(* Password reset.  randomBytes counts the reset tokens drawn by           *)
(* crypto.randomBytes; the n-th token is n.  The user keeps its sha256 and *)
(* the hour at which it expires; the mailer may fail.                      *)
(*                                                                         *)
(* Ingestion.  fetchVideosFromPexels receives a page of catalog items and  *)
(* creates a video for every pexelsId that no stored video has.            *)
(*                                                                         *)
(* Numbers.  A JavaScript number is a normalised fraction                  *)
(* [num |-> n, den |-> d] (d > 0, gcd(n, d) = 1), so 3.5 is 7/2 and the    *)
(* average 14/3 is kept exactly; the rounding of IEEE doubles is not       *)
(* modelled.  A value that may be missing from the request carries a       *)
(* `present` flag.                                                         *)
(*                                                                         *)
(* Strings.  A comment text is [present, lead, core, trail]: `lead`        *)
(* leading white-space characters, `core` characters from the first to the *)
(* last non-white-space character, `trail` trailing white-space            *)
(* characters.  text.length is lead + core + trail and text.trim() keeps   *)
(* the core only.                                                          *)
(*                                                                         *)
(* Time.  new Date() reads the clock `now`, which Tick advances; a Tick     *)
(* serves no request and clears req and res.                               *)
(*                                                                         *)
(* Identifiers.  A video id that is no well-formed ObjectId is not among   *)
(* the inputs; the ObjectId of a new comment is the counter nextCommentId. *)
(***************************************************************************)
EXTENDS Integers, Sequences, FiniteSets, TLC

VARIABLES users, videos, nextCommentId, now, calls, randomBytes, req, res

vars == <<users, videos, nextCommentId, now, calls, randomBytes, req, res>>

----------------------------------------------------------------------------
(* Bounds *)

MaxTime == 2
MaxCommentIds == 2
MaxPageParam == 2
MaxLikes == 3
MaxResetTokens == 2
MaxRatings == 2

----------------------------------------------------------------------------
(* Identities *)

UserIds == {"u1", "u2"}
\* the ObjectIds that new User() gives to the accounts registered later
NewUserIds == {"u3", "u4"}
\* the handler invocations that can be in flight together; a register
\* invocation goes by the id of its new User()
Invocations == {"h1", "h2"}
CallIds == Invocations \cup NewUserIds
VideoIds == {"v1"}
MissingVideoId == "v404"
VideoIdParams == VideoIds \cup {MissingVideoId}
\* the ObjectIds that new Video() gives to the videos ingested later
NewVideoIds == {"v2", "v3"}
\* video ids of the external catalog; the first is the one of v1
SeedPexelsId == 101
PexelsIds == {SeedPexelsId, 102}
NoToken == "none"
\* a bearer string that jwt.verify rejects
ForgedToken == "forged"
\* the ids whose token jwt.sign has made: the seeded accounts and the ones
\* that register
SignedIds == UserIds \cup NewUserIds

UserName(u) == IF u = "u1" THEN "Ana" ELSE "Luis"
UserEmail(u) == IF u = "u1" THEN "ana@mail.co" ELSE "luis@mail.co"

\* bcrypt.hash of the pre-save hook; the salt is not modelled
bcryptHash(password) == [bcrypt |-> password]
\* crypto.createHash('sha256').update(token).digest('hex'); no collisions
sha256(token) == [sha256 |-> token]

InitialPassword == "secret1"
\* resetPasswordToken and resetPasswordExpires of a user who has asked for
\* no reset
NoResetToken == [present |-> FALSE, value |-> sha256(0)]
NoResetExpires == [present |-> FALSE, value |-> 0]

\* a user document with the schema defaults
NewUser(name, email) ==
    [name |-> name, email |-> email, password |-> bcryptHash(InitialPassword),
     favoriteVideos |-> <<>>, moviesLiked |-> <<>>,
     resetPasswordToken |-> NoResetToken,
     resetPasswordExpires |-> NoResetExpires]

\* a handler invocation that is not running
Idle == [pc |-> "idle"]

----------------------------------------------------------------------------
(* JavaScript numbers as exact fractions *)

RECURSIVE GCD(_, _)
GCD(a, b) == IF b = 0 THEN a ELSE GCD(b, a % b)

Abs(x) == IF x < 0 THEN -x ELSE x

Frac(n, d) ==
    LET g == GCD(Abs(n), d)
    IN  [num |-> n \div g, den |-> d \div g]

Num(n) == [num |-> n, den |-> 1]

NumLess(a, b) == a.num * b.den < b.num * a.den

\* the left operand alone
NumAdd_left(a, b) == a

NumAdd(a, b) == Frac(a.num * b.den + b.num * a.den, a.den * b.den)

\* the quotient truncated to an integer
NumDivInt_truncated(a, n) == Num((a.num \div a.den) \div n)

\* a / n for a positive integer n
NumDivInt(a, n) == Frac(a.num, a.den * n)

IsInteger(a) == a.den = 1

----------------------------------------------------------------------------
(* Video documents *)

\* new Video({ pexelsId, ..., likesCount: 0 }) with the schema defaults
NewVideo(pexelsId) ==
    [pexelsId |-> pexelsId, likesCount |-> 0, ratings |-> <<>>,
     averageRating |-> Num(0), comments |-> <<>>]

----------------------------------------------------------------------------
(* Request inputs *)

Given(x) == [present |-> TRUE, value |-> x]
Absent == [present |-> FALSE, value |-> Num(0)]

RatingInputs ==
    {Absent, Given(Num(0)), Given(Num(6)), Given(Frac(7, 2))}
        \cup {Given(Num(k)) : k \in 1..5}

\* !rating
Falsy(rating) == ~rating.present \/ rating.value.num = 0

----------------------------------------------------------------------------
(* Comment texts *)

Text(lead, core, trail) ==
    [present |-> TRUE, lead |-> lead, core |-> core, trail |-> trail]

AbsentText == [present |-> FALSE, lead |-> 0, core |-> 0, trail |-> 0]

\* text.length
Length(text) == text.lead + text.core + text.trail

\* a trim that keeps the white space
Trim_identity(text) == text

\* text.trim()
Trim(text) == Text(0, text.core, 0)

\* !text
FalsyText(text) == ~text.present \/ Length(text) = 0

----------------------------------------------------------------------------
(* Query parameters: req.query.x is a decimal string or is missing *)

Param(n) == [present |-> TRUE, value |-> n]
NoParam == [present |-> FALSE, value |-> 0]

\* parseInt(req.query.x as string): NaN for a missing parameter
parseInt(param) == [nan |-> ~param.present, value |-> param.value]

\* n || fallback
OrDefault(n, fallback) == IF n.nan \/ n.value = 0 THEN fallback ELSE n.value

QueryParams == {NoParam} \cup {Param(n) : n \in (-1)..MaxPageParam}

----------------------------------------------------------------------------
(* Array helpers *)

\* Array.prototype.findIndex, given for each position whether the callback
\* accepts its element: the first accepted position, 0 for -1
FindIndex(accepted) ==
    IF \E i \in 1..Len(accepted) : accepted[i]
    THEN CHOOSE i \in 1..Len(accepted) :
            accepted[i] /\ \A j \in 1..(i - 1) : ~accepted[j]
    ELSE 0

\* removes the first element whatever the index
Splice1_first(arr, index) == Tail(arr)

\* removes the last element whatever the index
Splice1_last(arr, index) == SubSeq(arr, 1, Len(arr) - 1)

\* Array.prototype.splice(index, 1)
Splice1(arr, index) ==
    [i \in 1..(Len(arr) - 1) |-> IF i < index THEN arr[i] ELSE arr[i + 1]]

\* video.ratings.reduce((sum, r) => sum + r.rating, 0)
RECURSIVE SumRatings(_)
SumRatings(ratings) ==
    IF ratings = <<>> THEN Num(0)
    ELSE NumAdd(SumRatings(SubSeq(ratings, 1, Len(ratings) - 1)),
                ratings[Len(ratings)].rating)

----------------------------------------------------------------------------
(* Schema validation run by video.save() *)

RatingMin == 1
RatingMax == 5
AverageRatingMin == 0
AverageRatingMax == 5
LikesCountMin == 0

ratingSchema(r) ==
    /\ ~NumLess(r.rating, Num(RatingMin))
    /\ ~NumLess(Num(RatingMax), r.rating)

CommentTextMaxlength == 1000

commentSchema(c) ==
    /\ c.userName # ""
    /\ Length(c.text) > 0
    /\ Length(c.text) <= CommentTextMaxlength

videoSchema(video) ==
    /\ \A i \in 1..Len(video.ratings) : ratingSchema(video.ratings[i])
    /\ \A i \in 1..Len(video.comments) : commentSchema(video.comments[i])
    /\ ~NumLess(video.averageRating, Num(AverageRatingMin))
    /\ ~NumLess(Num(AverageRatingMax), video.averageRating)
    /\ video.likesCount >= LikesCountMin

----------------------------------------------------------------------------
(* Responses *)

\* no request, and the answer of an invocation that has not answered yet
NoRequest == [op |-> "none"]
NoResponse == [status |-> 0, body |-> [error |-> ""]]

Error(status, message) == [status |-> status, body |-> [error |-> message]]

InternalError == Error(500, "Error interno del servidor")

----------------------------------------------------------------------------
(* save() of a document that a handler has loaded and changed in memory.   *)
(* Mongoose sends the changes, not the document: a push as $push of the new *)
(* element, an assignment to a field of the i-th element as $set of that    *)
(* field, a splice or a new array as $set of the whole array, any other     *)
(* path as $set when its value differs from the loaded one.  An update that *)
(* names a position or replaces an array carries the condition that the     *)
(* version __v is the loaded one, and a $push or a replaced array            *)
(* increments __v.  __v is not stored in the model: a call record is        *)
(* marked `stale` when another invocation increments the version of the     *)
(* document it has loaded.                                                   *)

ArrayPaths == {"ratings", "comments", "favoriteVideos", "moviesLiked"}

\* array.push(element) is the only change
IsPush(loaded, saved) ==
    /\ Len(saved) = Len(loaded) + 1
    /\ SubSeq(saved, 1, Len(loaded)) = loaded

\* the stored array after the update
ArrayWritten(stored, loaded, saved) ==
    IF IsPush(loaded, saved)
    THEN Append(stored, saved[Len(saved)])
    ELSE IF Len(saved) = Len(loaded)
    THEN [i \in 1..Len(stored) |->
             IF i <= Len(saved) /\ saved[i] # loaded[i]
             THEN [f \in DOMAIN stored[i] |->
                      IF saved[i][f] # loaded[i][f] THEN saved[i][f]
                      ELSE stored[i][f]]
             ELSE stored[i]]
    ELSE saved

\* the stored document after the update
DocWritten(stored, loaded, saved) ==
    [f \in DOMAIN stored |->
        IF saved[f] = loaded[f] THEN stored[f]
        ELSE IF f \in ArrayPaths THEN ArrayWritten(stored[f], loaded[f], saved[f])
        ELSE saved[f]]

\* the update carries the condition { __v: loaded version }
VersionWhere(loaded, saved) ==
    \E f \in ArrayPaths \cap DOMAIN loaded :
        saved[f] # loaded[f] /\ ~IsPush(loaded[f], saved[f])

\* the update increments __v
VersionInc(loaded, saved) ==
    \E f \in ArrayPaths \cap DOMAIN loaded :
        saved[f] # loaded[f] /\ Len(saved[f]) # Len(loaded[f])

\* the invocations in flight once the document `id` has a new version
Outdated(inflight, id) ==
    [d \in DOMAIN inflight |->
        IF "loaded" \in DOMAIN inflight[d] /\ inflight[d].loaded = id
        THEN [inflight[d] EXCEPT !.stale = TRUE]
        ELSE inflight[d]]

\* await video.save() of the invocation c, then its answer: a document that
\* fails validation, or whose version is no longer the loaded one, is not
\* written and the handler's catch answers 500
VideoSave(c) ==
    LET call == calls[c]
        id == call.loaded
    IN  /\ req' = call.req
        /\ IF /\ videoSchema(call.saved)
              /\ VersionWhere(call.video, call.saved) => ~call.stale
           THEN /\ videos' = [videos EXCEPT
                       ![id] = DocWritten(@, call.video, call.saved)]
                /\ res' = call.response
                /\ calls' = [(IF VersionInc(call.video, call.saved)
                              THEN Outdated(calls, id) ELSE calls)
                                EXCEPT ![c] = Idle]
           ELSE /\ videos' = videos
                /\ res' = InternalError
                /\ calls' = [calls EXCEPT ![c] = Idle]

\* c is the invocation that serves the request that arrives: invocations
\* have no identity of their own, the first one that is not running is taken
FreeCall(c) ==
    /\ calls[c] = Idle
    /\ c = CHOOSE d \in Invocations : calls[d] = Idle

\* the invocation c awaits Video.findById(videoId)
AwaitFindVideo(c, request) ==
    /\ calls' = [calls EXCEPT ![c] = [pc |-> "findVideo", req |-> request]]
    /\ res' = NoResponse

\* the invocation c awaits video.save()
AwaitVideoSave(c, request, video, saved, response) ==
    /\ calls' = [calls EXCEPT ![c] =
                    [pc |-> "save", req |-> request, loaded |-> request.videoId,
                     video |-> video, saved |-> saved, response |-> response,
                     stale |-> FALSE]]
    /\ res' = NoResponse

----------------------------------------------------------------------------
(* Authentication gate *)

\* jwt.verify(token, jwtSecret): the token that jwt.sign made for the user u
\* is the string u, and no token expires
jwtVerify(token) == token \in SignedIds

\* the user of the token is not looked up
auth_verifiedOnly(token) == token # NoToken /\ jwtVerify(token)

auth(token) == token # NoToken /\ jwtVerify(token) /\ token \in DOMAIN users

\* the Authorization header of a request: none, or a token that the server
\* has answered (a seeded account, a register that has answered 201)
Tokens == {NoToken} \cup UserIds \cup (NewUserIds \cap DOMAIN users)

Unauthorized ==
    /\ res' = Error(401, IF req'.token = NoToken
                         THEN "Acceso denegado. No se proporcionó token."
                         ELSE "Token inválido.")
    /\ UNCHANGED <<users, videos, nextCommentId, now, randomBytes>>

----------------------------------------------------------------------------
(* Rating upsert and removal *)

\* the caller's entry is never found
ratingIndexOf_never(ratings, userId) == 0

\* the last entry is taken for the caller's
ratingIndexOf_last(ratings, userId) == Len(ratings)

\* video.ratings.findIndex((r) => r.userId.toString() === userId?.toString())
ratingIndexOf(ratings, userId) ==
    FindIndex([i \in 1..Len(ratings) |-> ratings[i].userId = userId])

\* the two messages swapped
ratingMessage_swapped(existingRatingIndex) ==
    IF existingRatingIndex # 0 THEN "Calificación agregada" ELSE "Calificación actualizada"

\* existingRatingIndex !== -1 ? 'Calificación actualizada' : 'Calificación agregada'
ratingMessage(existingRatingIndex) ==
    IF existingRatingIndex # 0 THEN "Calificación actualizada" ELSE "Calificación agregada"

\* the handler from the answer of Video.findById up to await video.save();
\* c is the invocation
addOrUpdateRating(c, request) ==
    LET userId == request.token
        videoId == request.videoId
        rating == request.rating
    IN  IF videoId \notin DOMAIN videos
        THEN /\ res' = Error(404, "Video no encontrado")
             /\ calls' = [calls EXCEPT ![c] = Idle]
        ELSE LET video == videos[videoId]
                 date == now
                 existingRatingIndex == ratingIndexOf(video.ratings, userId)
                 ratings ==
                     IF existingRatingIndex # 0
                     THEN [video.ratings EXCEPT
                              ![existingRatingIndex].rating = rating.value,
                              ![existingRatingIndex].createdAt = date]
                     ELSE Append(video.ratings,
                                 [userId |-> userId, rating |-> rating.value,
                                  createdAt |-> date])
                 totalRatings == SumRatings(ratings)
                 averageRating == NumDivInt(totalRatings, Len(ratings))
                 saved == [video EXCEPT !.ratings = ratings,
                                        !.averageRating = averageRating]
             IN  AwaitVideoSave(c, request, video, saved,
                     [status |-> 200,
                      body |-> [message |-> ratingMessage(existingRatingIndex),
                                averageRating |-> averageRating,
                                totalRatings |-> Len(ratings),
                                userRating |-> rating.value]])

\* the handler from the answer of Video.findById up to await video.save()
deleteRating(c, request) ==
    LET userId == request.token
        videoId == request.videoId
    IN  IF videoId \notin DOMAIN videos
        THEN /\ res' = Error(404, "Video no encontrado")
             /\ calls' = [calls EXCEPT ![c] = Idle]
        ELSE LET video == videos[videoId]
                 ratingIndex == ratingIndexOf(video.ratings, userId)
                 ratings == Splice1(video.ratings, ratingIndex)
                 averageRating == IF Len(ratings) > 0
                                  THEN NumDivInt(SumRatings(ratings), Len(ratings))
                                  ELSE Num(0)
                 saved == [video EXCEPT !.ratings = ratings,
                                        !.averageRating = averageRating]
             IN  IF ratingIndex = 0
                 THEN /\ res' = Error(404, "No has calificado este video")
                      /\ calls' = [calls EXCEPT ![c] = Idle]
                 ELSE AwaitVideoSave(c, request, video, saved,
                          [status |-> 200,
                           body |-> [message |-> "Calificación eliminada exitosamente",
                                     averageRating |-> averageRating,
                                     totalRatings |-> Len(ratings)]])

\* POST /:videoId/rating: auth with its await User.findById, then the
\* handler up to await Video.findById(videoId)
AddOrUpdateRatingReq ==
    \E c \in Invocations, token \in Tokens, videoId \in VideoIdParams,
       rating \in RatingInputs :
        /\ FreeCall(c)
        /\ req' = [op |-> "addOrUpdateRating", token |-> token,
                   videoId |-> videoId, rating |-> rating]
        /\ IF ~auth(token)
           THEN Unauthorized /\ UNCHANGED calls
           ELSE /\ IF Falsy(rating) \/ NumLess(rating.value, Num(1))
                                    \/ NumLess(Num(5), rating.value)
                   THEN /\ res' = Error(400, "La calificación debe ser un número entre 1 y 5")
                        /\ UNCHANGED calls
                   ELSE AwaitFindVideo(c, req')
                /\ UNCHANGED <<users, videos, nextCommentId, now, randomBytes>>

AddOrUpdateRatingFindVideo ==
    \E c \in Invocations :
        /\ calls[c].pc = "findVideo"
        /\ calls[c].req.op = "addOrUpdateRating"
        /\ req' = calls[c].req
        /\ addOrUpdateRating(c, req')
        /\ UNCHANGED <<users, videos, nextCommentId, now, randomBytes>>

AddOrUpdateRatingSave ==
    \E c \in Invocations :
        /\ calls[c].pc = "save"
        /\ calls[c].req.op = "addOrUpdateRating"
        /\ VideoSave(c)
        /\ UNCHANGED <<users, nextCommentId, now, randomBytes>>

\* DELETE /:videoId/rating: auth with its await User.findById, then the
\* handler up to await Video.findById(videoId)
DeleteRatingReq ==
    \E c \in Invocations, token \in Tokens, videoId \in VideoIdParams :
        /\ FreeCall(c)
        /\ req' = [op |-> "deleteRating", token |-> token, videoId |-> videoId]
        /\ IF ~auth(token)
           THEN Unauthorized /\ UNCHANGED calls
           ELSE /\ AwaitFindVideo(c, req')
                /\ UNCHANGED <<users, videos, nextCommentId, now, randomBytes>>

DeleteRatingFindVideo ==
    \E c \in Invocations :
        /\ calls[c].pc = "findVideo"
        /\ calls[c].req.op = "deleteRating"
        /\ req' = calls[c].req
        /\ deleteRating(c, req')
        /\ UNCHANGED <<users, videos, nextCommentId, now, randomBytes>>

DeleteRatingSave ==
    \E c \in Invocations :
        /\ calls[c].pc = "save"
        /\ calls[c].req.op = "deleteRating"
        /\ VideoSave(c)
        /\ UNCHANGED <<users, nextCommentId, now, randomBytes>>

----------------------------------------------------------------------------
(* Comment authoring, editing and deletion *)

\* the limit of the older copy of the handler
AddCommentMaxLength_legacy == 500

AddCommentMaxLength == 1000
EditCommentMaxLength == 1000

CommentTexts ==
    {AbsentText, Text(0, 0, 0), Text(2, 0, 0),
     Text(1, 1, 1),
     Text(0, CommentTextMaxlength, 0),
     Text(0, CommentTextMaxlength + 1, 0),
     Text(1, CommentTextMaxlength, 0)}

UnknownCommentId == 0
CommentIdParams == {UnknownCommentId} \cup 1..MaxCommentIds

\* a search that stops at the first comment, whatever its id
commentIndexOf_first(comments, commentId) == IF comments = <<>> THEN 0 ELSE 1

\* video.comments.findIndex((c) => c._id.toString() === commentId)
commentIndexOf(comments, commentId) ==
    FindIndex([i \in 1..Len(comments) |-> comments[i].id = commentId])

\* every caller passes for the author
isAuthor_anyone(comment, userId) == TRUE

\* video.comments[commentIndex].userId.toString() === userId?.toString()
isAuthor(comment, userId) == comment.userId = userId

\* the handler from the answer of Video.findById up to
\* await User.findById(userId); c is the invocation
addComment(c, request) ==
    IF request.videoId \notin DOMAIN videos
    THEN /\ res' = Error(404, "Video no encontrado")
         /\ calls' = [calls EXCEPT ![c] = Idle]
    ELSE /\ calls' = [calls EXCEPT ![c] =
                         [pc |-> "findUser", req |-> request,
                          loaded |-> request.videoId,
                          video |-> videos[request.videoId],
                          stale |-> FALSE]]
         /\ res' = NoResponse

\* the handler from the answer of Video.findById up to await video.save()
editComment(c, request) ==
    LET userId == request.token
        videoId == request.videoId
        commentId == request.commentId
        text == request.text
    IN  IF videoId \notin DOMAIN videos
        THEN /\ res' = Error(404, "Video no encontrado")
             /\ calls' = [calls EXCEPT ![c] = Idle]
        ELSE LET video == videos[videoId]
                 commentIndex == commentIndexOf(video.comments, commentId)
                 saved == [video EXCEPT !.comments[commentIndex].text = Trim(text)]
             IN  IF commentIndex = 0
                 THEN /\ res' = Error(404, "Comentario no encontrado")
                      /\ calls' = [calls EXCEPT ![c] = Idle]
                 ELSE IF ~isAuthor(video.comments[commentIndex], userId)
                 THEN /\ res' = Error(403, "No tienes permiso para editar este comentario")
                      /\ calls' = [calls EXCEPT ![c] = Idle]
                 ELSE AwaitVideoSave(c, request, video, saved,
                          [status |-> 200,
                           body |-> [message |-> "Comentario editado exitosamente",
                                     comment |-> saved.comments[commentIndex],
                                     totalComments |-> Len(saved.comments)]])

\* the handler from the answer of Video.findById up to await video.save()
deleteComment(c, request) ==
    LET userId == request.token
        videoId == request.videoId
        commentId == request.commentId
    IN  IF videoId \notin DOMAIN videos
        THEN /\ res' = Error(404, "Video no encontrado")
             /\ calls' = [calls EXCEPT ![c] = Idle]
        ELSE LET video == videos[videoId]
                 commentIndex == commentIndexOf(video.comments, commentId)
                 saved == [video EXCEPT !.comments = Splice1(video.comments, commentIndex)]
             IN  IF commentIndex = 0
                 THEN /\ res' = Error(404, "Comentario no encontrado")
                      /\ calls' = [calls EXCEPT ![c] = Idle]
                 ELSE IF ~isAuthor(video.comments[commentIndex], userId)
                 THEN /\ res' = Error(403, "No tienes permiso para eliminar este comentario")
                      /\ calls' = [calls EXCEPT ![c] = Idle]
                 ELSE AwaitVideoSave(c, request, video, saved,
                          [status |-> 200,
                           body |-> [message |-> "Comentario eliminado exitosamente",
                                     totalComments |-> Len(saved.comments)]])

\* POST /:videoId/comments: auth with its await User.findById, then the
\* handler up to await Video.findById(videoId)
AddCommentReq ==
    \E c \in Invocations, token \in Tokens, videoId \in VideoIdParams,
       text \in CommentTexts :
        /\ FreeCall(c)
        /\ req' = [op |-> "addComment", token |-> token,
                   videoId |-> videoId, text |-> text]
        /\ IF ~auth(token)
           THEN Unauthorized /\ UNCHANGED calls
           ELSE /\ IF FalsyText(text) \/ Length(Trim(text)) = 0
                   THEN /\ res' = Error(400, "El texto del comentario es requerido")
                        /\ UNCHANGED calls
                   ELSE IF Length(text) > AddCommentMaxLength
                   THEN /\ res' = Error(400, "El comentario no puede exceder 1000 caracteres")
                        /\ UNCHANGED calls
                   ELSE AwaitFindVideo(c, req')
                /\ UNCHANGED <<users, videos, nextCommentId, now, randomBytes>>

AddCommentFindVideo ==
    \E c \in Invocations :
        /\ calls[c].pc = "findVideo"
        /\ calls[c].req.op = "addComment"
        /\ req' = calls[c].req
        /\ addComment(c, req')
        /\ UNCHANGED <<users, videos, nextCommentId, now, randomBytes>>

\* await User.findById(userId), then the push of the new comment, whose _id
\* is drawn at once, until the handler awaits the save
AddCommentFindUser ==
    \E c \in Invocations :
        /\ calls[c].pc = "findUser"
        /\ calls[c].req.op = "addComment"
        /\ req' = calls[c].req
        /\ LET userId == req'.token
               video == calls[c].video
           IN  IF userId \notin DOMAIN users
               THEN /\ res' = Error(404, "Usuario no encontrado")
                    /\ calls' = [calls EXCEPT ![c] = Idle]
                    /\ UNCHANGED nextCommentId
               ELSE LET date == now
                        newComment == [userId |-> userId,
                                       userName |-> users[userId].name,
                                       text |-> Trim(req'.text),
                                       createdAt |-> date]
                        pushed == [id |-> nextCommentId,
                                   userId |-> newComment.userId,
                                   userName |-> newComment.userName,
                                   text |-> newComment.text,
                                   createdAt |-> newComment.createdAt]
                        saved == [video EXCEPT !.comments = Append(@, pushed)]
                    IN  /\ nextCommentId' = nextCommentId + 1
                        /\ calls' = [calls EXCEPT ![c] =
                               [pc |-> "save", req |-> req',
                                loaded |-> req'.videoId,
                                video |-> video, saved |-> saved,
                                response |->
                                   [status |-> 201,
                                    body |-> [message |-> "Comentario agregado exitosamente",
                                              comment |-> newComment,
                                              totalComments |-> Len(saved.comments)]],
                                stale |-> calls[c].stale]]
                        /\ res' = NoResponse
        /\ UNCHANGED <<users, videos, now, randomBytes>>

AddCommentSave ==
    \E c \in Invocations :
        /\ calls[c].pc = "save"
        /\ calls[c].req.op = "addComment"
        /\ VideoSave(c)
        /\ UNCHANGED <<users, nextCommentId, now, randomBytes>>

\* PUT /:videoId/comments/:commentId: auth with its await User.findById,
\* then the handler up to await Video.findById(videoId)
EditCommentReq ==
    \E c \in Invocations, token \in Tokens, videoId \in VideoIdParams,
       commentId \in CommentIdParams, text \in CommentTexts :
        /\ FreeCall(c)
        /\ req' = [op |-> "editComment", token |-> token, videoId |-> videoId,
                   commentId |-> commentId, text |-> text]
        /\ IF ~auth(token)
           THEN Unauthorized /\ UNCHANGED calls
           ELSE /\ IF FalsyText(text) \/ Length(Trim(text)) = 0
                   THEN /\ res' = Error(400, "El texto del comentario es requerido")
                        /\ UNCHANGED calls
                   ELSE IF Length(text) > EditCommentMaxLength
                   THEN /\ res' = Error(400, "El comentario no puede exceder 1000 caracteres")
                        /\ UNCHANGED calls
                   ELSE AwaitFindVideo(c, req')
                /\ UNCHANGED <<users, videos, nextCommentId, now, randomBytes>>

EditCommentFindVideo ==
    \E c \in Invocations :
        /\ calls[c].pc = "findVideo"
        /\ calls[c].req.op = "editComment"
        /\ req' = calls[c].req
        /\ editComment(c, req')
        /\ UNCHANGED <<users, videos, nextCommentId, now, randomBytes>>

EditCommentSave ==
    \E c \in Invocations :
        /\ calls[c].pc = "save"
        /\ calls[c].req.op = "editComment"
        /\ VideoSave(c)
        /\ UNCHANGED <<users, nextCommentId, now, randomBytes>>

\* DELETE /:videoId/comments/:commentId: auth with its await User.findById,
\* then the handler up to await Video.findById(videoId)
DeleteCommentReq ==
    \E c \in Invocations, token \in Tokens, videoId \in VideoIdParams,
       commentId \in CommentIdParams :
        /\ FreeCall(c)
        /\ req' = [op |-> "deleteComment", token |-> token, videoId |-> videoId,
                   commentId |-> commentId]
        /\ IF ~auth(token)
           THEN Unauthorized /\ UNCHANGED calls
           ELSE /\ AwaitFindVideo(c, req')
                /\ UNCHANGED <<users, videos, nextCommentId, now, randomBytes>>

DeleteCommentFindVideo ==
    \E c \in Invocations :
        /\ calls[c].pc = "findVideo"
        /\ calls[c].req.op = "deleteComment"
        /\ req' = calls[c].req
        /\ deleteComment(c, req')
        /\ UNCHANGED <<users, videos, nextCommentId, now, randomBytes>>

DeleteCommentSave ==
    \E c \in Invocations :
        /\ calls[c].pc = "save"
        /\ calls[c].req.op = "deleteComment"
        /\ VideoSave(c)
        /\ UNCHANGED <<users, nextCommentId, now, randomBytes>>

----------------------------------------------------------------------------
(* Comment listing *)

DefaultPage == 1
DefaultLimit == 20

\* the comparator with its operands swapped
byNewest_oldest(a, b) == a.createdAt - b.createdAt

\* the comparator (a, b) => new Date(b.createdAt).getTime() - new Date(a.createdAt).getTime()
byNewest(a, b) == b.createdAt - a.createdAt

\* the merge step of the stable sort: an element of `right` goes before an
\* element of `left` only when the comparator puts it strictly first
Merge(left, right) ==
    LET posLeft(i) == i + Cardinality({j \in 1..Len(right) :
                                          byNewest(left[i], right[j]) > 0})
        posRight(j) == j + Cardinality({i \in 1..Len(left) :
                                           byNewest(left[i], right[j]) <= 0})
    IN  [k \in 1..(Len(left) + Len(right)) |->
            IF \E i \in 1..Len(left) : posLeft(i) = k
            THEN left[CHOOSE i \in 1..Len(left) : posLeft(i) = k]
            ELSE right[CHOOSE j \in 1..Len(right) : posRight(j) = k]]

\* video.comments.sort(comparator); Array.prototype.sort is a stable merge sort
RECURSIVE sortedComments(_)
sortedComments(comments) ==
    IF Len(comments) <= 1 THEN comments
    ELSE LET half == Len(comments) \div 2
         IN  Merge(sortedComments(SubSeq(comments, 1, half)),
                   sortedComments(SubSeq(comments, half + 1, Len(comments))))

\* a relative index of Array.prototype.slice, clamped to 0..length
SliceIndex(index, length) ==
    IF index < 0
    THEN (IF length + index < 0 THEN 0 ELSE length + index)
    ELSE (IF index > length THEN length ELSE index)

\* Array.prototype.slice(startIndex, endIndex), with 0-based arguments
Slice(arr, startIndex, endIndex) ==
    SubSeq(arr, SliceIndex(startIndex, Len(arr)) + 1, SliceIndex(endIndex, Len(arr)))

\* Math.ceil(n / d) for n >= 0 and d # 0
Ceil(n, d) == IF d > 0 THEN (n + d - 1) \div d ELSE -(n \div (-d))

getComments(videoId, pageParam, limitParam) ==
    LET page == OrDefault(parseInt(pageParam), DefaultPage)
        limit == OrDefault(parseInt(limitParam), DefaultLimit)
    IN  IF videoId \notin DOMAIN videos
        THEN res' = Error(404, "Video no encontrado")
        ELSE LET video == videos[videoId]
                 sorted == sortedComments(video.comments)
                 startIndex == (page - 1) * limit
                 endIndex == startIndex + limit
                 paginatedComments == Slice(sorted, startIndex, endIndex)
             IN  res' = [status |-> 200,
                         body |-> [comments |-> paginatedComments,
                                   currentPage |-> page,
                                   totalPages |-> Ceil(Len(video.comments), limit),
                                   totalComments |-> Len(video.comments)]]

\* a listing that saves the document whose comments it has sorted
GetCommentsReq_saving ==
    \E videoId \in VideoIdParams, pageParam \in QueryParams, limitParam \in QueryParams :
        /\ req' = [op |-> "getComments", videoId |-> videoId,
                   page |-> pageParam, limit |-> limitParam]
        /\ getComments(videoId, pageParam, limitParam)
        /\ videos' = [v \in DOMAIN videos |->
                         [videos[v] EXCEPT !.comments =
                             IF v = videoId THEN sortedComments(@) ELSE @]]
        /\ UNCHANGED <<users, nextCommentId, now, calls, randomBytes>>

GetCommentsReq ==
    \E videoId \in VideoIdParams, pageParam \in QueryParams, limitParam \in QueryParams :
        /\ req' = [op |-> "getComments", videoId |-> videoId,
                   page |-> pageParam, limit |-> limitParam]
        /\ getComments(videoId, pageParam, limitParam)
        /\ UNCHANGED <<users, videos, nextCommentId, now, calls, randomBytes>>

----------------------------------------------------------------------------
(* User documents: validation run by user.save() and by runValidators *)

NameMaxlength == 50

\* a name of 51 characters
LongName == "Maria de los Angeles Fernandez de Cordoba y Mendoza"

Emails == {"ana@mail.co", "luis@mail.co", "zoe@mail.co"}

\* an address typed in capitals, and a string the pattern of the schema rejects
CapitalEmail == "ANA@MAIL.CO"
MalformedEmail == "zoe.mail.co"

\* the setter `lowercase: true` of userSchema.email
toLowerCase(email) == IF email = CapitalEmail THEN "ana@mail.co" ELSE email

\* userSchema.email.match
emailPattern(email) == email \in Emails \cup {CapitalEmail}

userSchema(user) ==
    /\ user.name # ""
    /\ Len(user.name) <= NameMaxlength
    /\ user.email # ""
    /\ emailPattern(user.email)

\* the unique index on email refuses a write that would give `id` an address
\* that another document holds
uniqueIndex_absent(id, email) == TRUE

uniqueIndex(id, email) ==
    \A other \in DOMAIN users \ {id} : users[other].email # email

\* user.save() of the invocation `call` is accepted: the document is still in
\* the collection, it passes validation and its version is the loaded one
\* when the update depends on it
UserSaveAccepted(call) ==
    /\ call.loaded \in DOMAIN users
    /\ userSchema(call.saved)
    /\ VersionWhere(call.user, call.saved) => ~call.stale

\* what an accepted user.save() leaves in the collection and in flight
UserSaved(call) ==
    [users |-> [users EXCEPT
                   ![call.loaded] = DocWritten(@, call.user, call.saved)],
     calls |-> IF VersionInc(call.user, call.saved)
               THEN Outdated(calls, call.loaded) ELSE calls]

----------------------------------------------------------------------------
(* Account removal *)

\* await User.findByIdAndDelete(id), then the answer
deleteUser(c, request) ==
    LET id == request.id
    IN  /\ calls' = [calls EXCEPT ![c] = Idle]
        /\ IF id \notin DOMAIN users
           THEN /\ res' = Error(404, "Usuario no encontrado")
                /\ users' = users
           ELSE /\ users' = [u \in DOMAIN users \ {id} |-> users[u]]
                /\ res' = [status |-> 200,
                           body |-> [message |-> "Usuario eliminado exitosamente"]]

\* DELETE /api/users/:id: auth with its await User.findById, then the handler
\* up to await User.findByIdAndDelete(id)
DeleteUserReq ==
    \E c \in Invocations, token \in Tokens, id \in UserIds :
        /\ FreeCall(c)
        /\ req' = [op |-> "deleteUser", token |-> token, id |-> id]
        /\ IF ~auth(token)
           THEN Unauthorized /\ UNCHANGED calls
           ELSE /\ IF token # id
                   THEN /\ res' = Error(403, "No tienes permisos para eliminar este usuario")
                        /\ UNCHANGED calls
                   ELSE /\ calls' = [calls EXCEPT ![c] =
                                        [pc |-> "findByIdAndDelete", req |-> req']]
                        /\ res' = NoResponse
                /\ UNCHANGED <<users, videos, nextCommentId, now, randomBytes>>

DeleteUserFindByIdAndDelete ==
    \E c \in Invocations :
        /\ calls[c].pc = "findByIdAndDelete"
        /\ req' = calls[c].req
        /\ deleteUser(c, req')
        /\ UNCHANGED <<videos, nextCommentId, now, randomBytes>>

----------------------------------------------------------------------------
(* Like toggle *)

\* Math.max
Max(a, b) == IF a > b THEN a ELSE b

\* user.moviesLiked.some((id) => id.toString() === videoId)
alreadyLiked(user, videoId) ==
    \E i \in 1..Len(user.moviesLiked) : user.moviesLiked[i] = videoId

\* user.moviesLiked.filter((id) => id.toString() !== videoId)
withoutLike(moviesLiked, videoId) ==
    SelectSeq(moviesLiked, LAMBDA id : id # videoId)

\* the answer always says that the like was added
toggled_alwaysAdded(user, video, videoId) ==
    IF alreadyLiked(user, videoId)
    THEN [user |-> [user EXCEPT !.moviesLiked = withoutLike(@, videoId)],
          video |-> [video EXCEPT !.likesCount = Max(0, @ - 1)],
          message |-> "Like added",
          liked |-> TRUE]
    ELSE [user |-> [user EXCEPT !.moviesLiked = Append(@, videoId)],
          video |-> [video EXCEPT !.likesCount = @ + 1],
          message |-> "Like added",
          liked |-> TRUE]

\* the two documents as the handler has changed them in memory, and what it
\* will answer
toggled(user, video, videoId) ==
    IF alreadyLiked(user, videoId)
    THEN [user |-> [user EXCEPT !.moviesLiked = withoutLike(@, videoId)],
          video |-> [video EXCEPT !.likesCount = Max(0, @ - 1)],
          message |-> "Like removed",
          liked |-> FALSE]
    ELSE [user |-> [user EXCEPT !.moviesLiked = Append(@, videoId)],
          video |-> [video EXCEPT !.likesCount = @ + 1],
          message |-> "Like added",
          liked |-> TRUE]

likeResponse(result) ==
    [status |-> 200,
     body |-> [message |-> result.message,
               liked |-> result.liked,
               likesCount |-> result.video.likesCount]]

\* POST /:videoId/like: auth with its await User.findById, then the handler
\* up to await Video.findById(videoId); c is the invocation
ToggleLikeReq ==
    \E c \in Invocations, token \in Tokens, videoId \in VideoIdParams :
        /\ FreeCall(c)
        /\ req' = [op |-> "toggleLike", token |-> token, videoId |-> videoId]
        /\ IF ~auth(token)
           THEN Unauthorized /\ UNCHANGED calls
           ELSE /\ AwaitFindVideo(c, req')
                /\ UNCHANGED <<users, videos, nextCommentId, now, randomBytes>>

\* await Video.findById(videoId), up to await User.findById(userId)
ToggleLikeFindVideo ==
    \E c \in Invocations :
        /\ calls[c].pc = "findVideo"
        /\ calls[c].req.op = "toggleLike"
        /\ req' = calls[c].req
        /\ IF req'.videoId \notin DOMAIN videos
           THEN /\ res' = Error(404, "Video no encontrado")
                /\ calls' = [calls EXCEPT ![c] = Idle]
           ELSE /\ calls' = [calls EXCEPT ![c] =
                                [pc |-> "findUser", req |-> req',
                                 video |-> videos[req'.videoId]]]
                /\ res' = NoResponse
        /\ UNCHANGED <<users, videos, nextCommentId, now, randomBytes>>

\* await User.findById(userId), then the changes in memory, up to
\* await user.save()
ToggleLikeFindUser ==
    \E c \in Invocations :
        /\ calls[c].pc = "findUser"
        /\ calls[c].req.op = "toggleLike"
        /\ req' = calls[c].req
        /\ LET userId == req'.token
           IN  IF userId \notin DOMAIN users
               THEN /\ res' = Error(404, "Usuario no encontrado")
                    /\ calls' = [calls EXCEPT ![c] = Idle]
               ELSE LET result == toggled(users[userId], calls[c].video,
                                          req'.videoId)
                    IN  /\ calls' = [calls EXCEPT ![c] =
                               [pc |-> "saveUser", req |-> req',
                                loaded |-> userId, user |-> users[userId],
                                saved |-> result.user,
                                video |-> calls[c].video,
                                result |-> result, stale |-> FALSE]]
                        /\ res' = NoResponse
        /\ UNCHANGED <<users, videos, nextCommentId, now, randomBytes>>

\* await user.save(), up to await video.save(); a save that throws is
\* answered 500 by the catch
ToggleLikeSaveUser ==
    \E c \in Invocations :
        /\ calls[c].pc = "saveUser"
        /\ req' = calls[c].req
        /\ IF UserSaveAccepted(calls[c])
           THEN /\ users' = UserSaved(calls[c]).users
                /\ calls' = [UserSaved(calls[c]).calls EXCEPT ![c] =
                       [pc |-> "save", req |-> req',
                        loaded |-> req'.videoId,
                        video |-> calls[c].video,
                        saved |-> calls[c].result.video,
                        response |-> likeResponse(calls[c].result),
                        result |-> calls[c].result,
                        stale |-> FALSE]]
                /\ res' = NoResponse
           ELSE /\ res' = InternalError
                /\ calls' = [calls EXCEPT ![c] = Idle]
                /\ UNCHANGED users
        /\ UNCHANGED <<videos, nextCommentId, now, randomBytes>>

\* await video.save(): writes likesCount, the one path the handler has set,
\* when its value is not the loaded one; then res.json
ToggleLikeSaveVideo ==
    \E c \in Invocations :
        /\ calls[c].pc = "save"
        /\ calls[c].req.op = "toggleLike"
        /\ VideoSave(c)
        /\ UNCHANGED <<users, nextCommentId, now, randomBytes>>

----------------------------------------------------------------------------
(* Favorites *)

\* req.body.videoId, "" when the body has none; the handler does not look the
\* reference up, any string is kept
FavoriteRefs == {"v1", "pexels-7"}
FavoriteInputs == FavoriteRefs \cup {""}

\* no element is ever found
includes_never(arr, x) == FALSE

\* Array.prototype.includes
includes(arr, x) == \E i \in 1..Len(arr) : arr[i] = x

\* await user.save() of the invocation c, then its answer
UserSave(c) ==
    /\ req' = calls[c].req
    /\ IF UserSaveAccepted(calls[c])
       THEN /\ users' = UserSaved(calls[c]).users
            /\ calls' = [UserSaved(calls[c]).calls EXCEPT ![c] = Idle]
            /\ res' = calls[c].response
       ELSE /\ users' = users
            /\ calls' = [calls EXCEPT ![c] = Idle]
            /\ res' = InternalError

\* the invocation c awaits user.save()
AwaitUserSave(c, request, id, saved, response) ==
    /\ calls' = [calls EXCEPT ![c] =
                    [pc |-> "save", req |-> request, loaded |-> id,
                     user |-> users[id], saved |-> saved,
                     response |-> response, stale |-> FALSE]]
    /\ res' = NoResponse

\* POST /favorites: auth, then the handler up to await User.findById(userId)
AddFavoriteReq ==
    \E c \in Invocations, token \in Tokens, videoId \in FavoriteInputs :
        /\ FreeCall(c)
        /\ req' = [op |-> "addFavorite", token |-> token, videoId |-> videoId]
        /\ IF ~auth(token)
           THEN Unauthorized /\ UNCHANGED calls
           ELSE /\ IF videoId = ""
                   THEN /\ res' = Error(400, "El ID del video es requerido")
                        /\ UNCHANGED calls
                   ELSE /\ calls' = [calls EXCEPT ![c] =
                                        [pc |-> "findUser", req |-> req']]
                        /\ res' = NoResponse
                /\ UNCHANGED <<users, videos, nextCommentId, now, randomBytes>>

\* await User.findById(userId), then the handler up to await user.save()
AddFavoriteFindUser ==
    \E c \in Invocations :
        /\ calls[c].pc = "findUser"
        /\ calls[c].req.op = "addFavorite"
        /\ req' = calls[c].req
        /\ LET userId == req'.token
               videoId == req'.videoId
           IN  IF userId \notin DOMAIN users
               THEN /\ res' = Error(404, "Usuario no encontrado")
                    /\ calls' = [calls EXCEPT ![c] = Idle]
               ELSE IF includes(users[userId].favoriteVideos, videoId)
               THEN /\ res' = Error(400, "El video ya está en favoritos")
                    /\ calls' = [calls EXCEPT ![c] = Idle]
               ELSE LET user == [users[userId] EXCEPT
                                    !.favoriteVideos = Append(@, videoId)]
                    IN  AwaitUserSave(c, req', userId, user,
                            [status |-> 200,
                             body |-> [message |-> "Video agregado a favoritos",
                                       favoriteVideos |-> user.favoriteVideos]])
        /\ UNCHANGED <<users, videos, nextCommentId, now, randomBytes>>

AddFavoriteSave ==
    \E c \in Invocations :
        /\ calls[c].pc = "save"
        /\ calls[c].req.op = "addFavorite"
        /\ UserSave(c)
        /\ UNCHANGED <<videos, nextCommentId, now, randomBytes>>

\* DELETE /favorites/:videoId: auth, then the handler up to
\* await User.findById(userId)
RemoveFavoriteReq ==
    \E c \in Invocations, token \in Tokens, videoId \in FavoriteRefs :
        /\ FreeCall(c)
        /\ req' = [op |-> "removeFavorite", token |-> token, videoId |-> videoId]
        /\ IF ~auth(token)
           THEN Unauthorized /\ UNCHANGED calls
           ELSE /\ calls' = [calls EXCEPT ![c] =
                                [pc |-> "findUser", req |-> req']]
                /\ res' = NoResponse
                /\ UNCHANGED <<users, videos, nextCommentId, now, randomBytes>>

\* await User.findById(userId), then the handler up to await user.save()
RemoveFavoriteFindUser ==
    \E c \in Invocations :
        /\ calls[c].pc = "findUser"
        /\ calls[c].req.op = "removeFavorite"
        /\ req' = calls[c].req
        /\ LET userId == req'.token
               videoId == req'.videoId
           IN  IF userId \notin DOMAIN users
               THEN /\ res' = Error(404, "Usuario no encontrado")
                    /\ calls' = [calls EXCEPT ![c] = Idle]
               ELSE LET initialLength == Len(users[userId].favoriteVideos)
                        user == [users[userId] EXCEPT
                                    !.favoriteVideos =
                                        SelectSeq(@, LAMBDA id : id # videoId)]
                    IN  IF Len(user.favoriteVideos) = initialLength
                        THEN /\ res' = Error(404, "El video no está en favoritos")
                             /\ calls' = [calls EXCEPT ![c] = Idle]
                        ELSE AwaitUserSave(c, req', userId, user,
                                 [status |-> 200,
                                  body |-> [message |-> "Video eliminado de favoritos",
                                            favoriteVideos |-> user.favoriteVideos]])
        /\ UNCHANGED <<users, videos, nextCommentId, now, randomBytes>>

RemoveFavoriteSave ==
    \E c \in Invocations :
        /\ calls[c].pc = "save"
        /\ calls[c].req.op = "removeFavorite"
        /\ UserSave(c)
        /\ UNCHANGED <<videos, nextCommentId, now, randomBytes>>

----------------------------------------------------------------------------
(* Rating statistics *)

\* a counter of the distribution object; undefined++ and NaN++ give NaN
Counter(n) == [nan |-> FALSE, value |-> n]
NaN == [nan |-> TRUE, value |-> 0]

\* distribution[key]++ ; a key the object does not have is created with NaN
Increment(distribution, key) ==
    IF key \in DOMAIN distribution
    THEN [distribution EXCEPT ![key] = IF @.nan THEN NaN ELSE Counter(@.value + 1)]
    ELSE [k \in DOMAIN distribution \cup {key} |->
             IF k = key THEN NaN ELSE distribution[k]]

\* video.ratings.forEach(r => { distribution[r.rating]++ }) from the five zeros
RECURSIVE distributionOf(_)
distributionOf(ratings) ==
    IF ratings = <<>>
    THEN [key \in {Num(k) : k \in RatingMin..RatingMax} |-> Counter(0)]
    ELSE Increment(distributionOf(SubSeq(ratings, 1, Len(ratings) - 1)),
                   ratings[Len(ratings)].rating)

\* the string whole "." tenth
Decimal1(whole, tenth) == [whole |-> whole, tenth |-> tenth]

(* The percentages are IEEE 754 doubles: count / total is rounded to a     *)
(* significand of Precision bits, its product with 100 is rounded again,   *)
(* and toFixed(1) takes the tenth nearest to the exact value of that       *)
(* double.  A double that is not zero is sig * 2^exp; sig is written with   *)
(* its digits in base 2^LimbBits, the lowest first, so that no             *)
(* intermediate value exceeds the 32 bits of an integer here: the bits of  *)
(* sig below the leading one make four digits.  count <= total < Limb.     *)

Precision == 53
LimbBits == (Precision - 1) \div 4

RECURSIVE Pow2(_)
Pow2(n) == IF n = 0 THEN 1 ELSE 2 * Pow2(n - 1)

Limb == Pow2(LimbBits)

\* a * k + carry, for a digit k
RECURSIVE TimesPlus(_, _, _)
TimesPlus(a, k, carry) ==
    IF a = <<>>
    THEN IF carry = 0 THEN <<>>
         ELSE <<carry % Limb>> \o TimesPlus(<<>>, k, carry \div Limb)
    ELSE LET x == Head(a) * k + carry
         IN  <<x % Limb>> \o TimesPlus(Tail(a), k, x \div Limb)

\* floor(a / 2^k)
ShiftRight(a, k) ==
    LET m == Pow2(k % LimbBits)
        b == IF k \div LimbBits >= Len(a) THEN <<>>
             ELSE SubSeq(a, k \div LimbBits + 1, Len(a))
    IN  [i \in 1..Len(b) |->
            (b[i] \div m)
               + (IF i < Len(b) THEN (b[i + 1] % m) * (Limb \div m) ELSE 0)]

\* the integer that the digits a write, when it has less than 32 bits
RECURSIVE Value(_)
Value(a) == IF a = <<>> THEN 0 ELSE Head(a) + Limb * Value(Tail(a))

\* a / 2^k rounded to the nearest integer, to the even one when two are as
\* near, for 0 < k < LimbBits
RoundShift(a, k) ==
    LET q == ShiftRight(a, k)
        rest == a[1] % Pow2(k)
        half == Pow2(k - 1)
        up == rest > half \/ (rest = half /\ q[1] % 2 = 1)
    IN  TimesPlus(q, 1, IF up THEN 1 ELSE 0)

\* n digits of r / t after the point, the lowest first, for 0 <= r < t
RECURSIVE Fraction(_, _, _)
Fraction(r, t, n) ==
    IF n = 0 THEN <<>>
    ELSE Fraction((r * Limb) % t, t, n - 1) \o <<(r * Limb) \div t>>

\* what is left of r / t after these n digits, times t
RECURSIVE Remainder(_, _, _)
Remainder(r, t, n) ==
    IF n = 0 THEN r ELSE Remainder((r * Limb) % t, t, n - 1)

DoubleZero == [sig |-> <<>>, exp |-> 0]

\* the double count / total: count * 2^s / total lies in [1, 2), its first
\* Precision bits are rounded to nearest, to even when two are as near
DoubleDivide(count, total) ==
    IF count = 0 THEN DoubleZero
    ELSE
    LET s == CHOOSE k \in 0..LimbBits :
                 total <= count * Pow2(k) /\ count * Pow2(k) < 2 * total
        r == count * Pow2(s) - total
        n == (Precision - 1) \div LimbBits
        sig == Fraction(r, total, n) \o <<1>>
        rest == 2 * Remainder(r, total, n)
        up == rest > total \/ (rest = total /\ sig[1] % 2 = 1)
    IN  [sig |-> TimesPlus(sig, 1, IF up THEN 1 ELSE 0),
         exp |-> -(Precision - 1) - s]

\* the double x * 100: the exact product has 6 or 7 bits more than Precision
DoubleTimes100(x) ==
    IF x = DoubleZero THEN DoubleZero
    ELSE
    LET product == TimesPlus(x.sig, 100, 0)
        d == IF Value(ShiftRight(product, Precision + 6)) > 0 THEN 7 ELSE 6
    IN  [sig |-> RoundShift(product, d), exp |-> x.exp + d]

\* Number.prototype.toFixed(1) of a double in [0, 100]: the integer n for
\* which n / 10 is nearest to the exact value of x, the larger one when two
\* are as near
toFixed1(x) ==
    IF x = DoubleZero THEN Decimal1(0, 0)
    ELSE
    LET twenties == Value(ShiftRight(TimesPlus(x.sig, 20, 0), -x.exp))
        tenths == (twenties + 1) \div 2
    IN  Decimal1(tenths \div 10, tenths % 10)

getRatingStats(videoId) ==
    IF videoId \notin DOMAIN videos
    THEN res' = Error(404, "Video no encontrado")
    ELSE LET video == videos[videoId]
             distribution == distributionOf(video.ratings)
             totalRatings == Len(video.ratings)
             distributionPercentage ==
                 [key \in {Num(k) : k \in RatingMin..RatingMax} |->
                     IF totalRatings > 0
                     THEN toFixed1(DoubleTimes100(
                              DoubleDivide(distribution[key].value, totalRatings)))
                     ELSE Decimal1(0, 0)]
         IN  res' = [status |-> 200,
                     body |-> [averageRating |-> video.averageRating,
                               totalRatings |-> totalRatings,
                               distribution |-> distribution,
                               distributionPercentage |-> distributionPercentage]]

GetRatingStatsReq ==
    \E videoId \in VideoIdParams :
        /\ req' = [op |-> "getRatingStats", videoId |-> videoId]
        /\ getRatingStats(videoId)
        /\ UNCHANGED <<users, videos, nextCommentId, now, calls, randomBytes>>

----------------------------------------------------------------------------
(* Profile update *)

\* req.body.name and req.body.email: a string, or nothing
NoString == [present |-> FALSE, value |-> ""]
NameInputs == {NoString, Given("Zoe"), Given(LongName)}
EmailInputs ==
    {NoString, Given("zoe@mail.co"), Given("luis@mail.co"),
     Given(CapitalEmail), Given(MalformedEmail)}

\* .select('-password'): the document without its password
selectWithoutPassword(user) ==
    [field \in DOMAIN user \ {"password"} |-> user[field]]

\* the update also rewrites the userName of the comments the user has written
updateUser_cascading(c, request) ==
    LET id == request.id
        name == request.name
    IN  /\ id \in DOMAIN users
        /\ name.present
        /\ users' = [users EXCEPT ![id].name = name.value]
        /\ videos' = [v \in DOMAIN videos |->
                         [videos[v] EXCEPT !.comments =
                             [i \in 1..Len(@) |->
                                 IF @[i].userId = id
                                 THEN [@[i] EXCEPT !.userName = name.value]
                                 ELSE @[i]]]]
        /\ res' = [status |-> 200,
                   body |-> [message |-> "Usuario actualizado exitosamente",
                             user |-> selectWithoutPassword(users'[id])]]
        /\ calls' = [calls EXCEPT ![c] = Idle]

\* await User.findByIdAndUpdate(id, { name, email, age }, { new, runValidators }),
\* then the answer: a key without a value is not part of the update, the
\* setters and the validators of the schema run on the keys that are, and the
\* unique index has the last word
updateUser(c, request) ==
    LET id == request.id
        name == request.name
        email == request.email
        valid == /\ name.present
                      => name.value # "" /\ Len(name.value) <= NameMaxlength
                 /\ email.present
                      => emailPattern(toLowerCase(email.value))
    IN  /\ calls' = [calls EXCEPT ![c] = Idle]
        /\ videos' = videos
        /\ IF ~valid
           THEN res' = InternalError /\ users' = users
           ELSE IF id \notin DOMAIN users
           THEN res' = Error(404, "Usuario no encontrado") /\ users' = users
           ELSE LET newName == IF name.present THEN name.value ELSE users[id].name
                    newEmail == IF email.present THEN toLowerCase(email.value)
                                ELSE users[id].email
                    updated == [users[id] EXCEPT !.name = newName,
                                                 !.email = newEmail]
                IN  IF ~uniqueIndex(id, newEmail)
                    THEN res' = InternalError /\ users' = users
                    ELSE /\ users' = [users EXCEPT ![id] = updated]
                         /\ res' = [status |-> 200,
                                    body |-> [message |-> "Usuario actualizado exitosamente",
                                              user |-> selectWithoutPassword(updated)]]

\* PUT /api/users/:id: auth with its await User.findById, then the handler up
\* to await User.findByIdAndUpdate
UpdateUserReq ==
    \E c \in Invocations, token \in Tokens, id \in Tokens \ {NoToken},
       name \in NameInputs, email \in EmailInputs :
        /\ FreeCall(c)
        /\ req' = [op |-> "updateUser", token |-> token, id |-> id,
                   name |-> name, email |-> email]
        /\ IF ~auth(token)
           THEN Unauthorized /\ UNCHANGED calls
           ELSE /\ IF token # id
                   THEN /\ res' = Error(403, "No tienes permisos para actualizar este usuario")
                        /\ UNCHANGED calls
                   ELSE /\ calls' = [calls EXCEPT ![c] =
                                        [pc |-> "findByIdAndUpdate", req |-> req']]
                        /\ res' = NoResponse
                /\ UNCHANGED <<users, videos, nextCommentId, now, randomBytes>>

UpdateUserFindByIdAndUpdate ==
    \E c \in Invocations :
        /\ calls[c].pc = "findByIdAndUpdate"
        /\ req' = calls[c].req
        /\ updateUser(c, req')
        /\ UNCHANGED <<nextCommentId, now, randomBytes>>

----------------------------------------------------------------------------
(* Requests with a forged credential *)

\* the operations whose routes name auth before the handler
GatedOps ==
    {"toggleLike", "addOrUpdateRating", "getUserRating",
     "addComment", "deleteComment"}

\* the handlers that read req.user and that no route mounts; the operation
\* table has them behind the same gate
UnroutedOps == {"deleteRating", "editComment"}

\* jwt.verify throws on the bearer string, the catch of the middleware answers
\* and next() is not called, whatever the route
ForgedTokenReq ==
    \E op \in GatedOps, videoId \in VideoIdParams :
        /\ req' = [op |-> op, token |-> ForgedToken, videoId |-> videoId]
        /\ UNCHANGED calls
        /\ ~auth(ForgedToken)
        /\ Unauthorized

\* the same bearer string on deleteRating and editComment
ForgedTokenUnroutedReq ==
    \E op \in UnroutedOps, videoId \in VideoIdParams :
        /\ req' = [op |-> op, token |-> ForgedToken, videoId |-> videoId]
        /\ UNCHANGED calls
        /\ ~auth(ForgedToken)
        /\ Unauthorized

----------------------------------------------------------------------------
(* Registration, one await at a time.  calls[c] is the invocation whose *)
(* new User() has the id c; name, password and age are valid and fixed.   *)

RegisterName == "Zoe"
RegisterEmails == {"ana@mail.co", "zoe@mail.co", CapitalEmail, MalformedEmail}

\* await User.findOne({ email }); the filter goes through the setters of the
\* schema
RegisterFindOne ==
    \E c \in NewUserIds, email \in RegisterEmails :
        /\ calls[c] = Idle
        /\ c \notin DOMAIN users
        /\ IF \E u \in DOMAIN users : users[u].email = toLowerCase(email)
           THEN /\ req' = [op |-> "register", email |-> email]
                /\ res' = Error(400, "El usuario ya existe con este email")
                /\ UNCHANGED calls
           ELSE /\ req' = [op |-> "register", email |-> email]
                /\ res' = NoResponse
                /\ calls' = [calls EXCEPT ![c] = [pc |-> "save", email |-> email]]
        /\ UNCHANGED <<users, videos, nextCommentId, now, randomBytes>>

\* await user.save(): validation, then the insert, which the unique index on
\* email can refuse; then the 201 answer
RegisterSave ==
    \E c \in NewUserIds :
        /\ calls[c].pc = "save"
        /\ LET user == NewUser(RegisterName, toLowerCase(calls[c].email))
           IN  /\ req' = [op |-> "register", email |-> calls[c].email]
               /\ IF userSchema(user) /\ uniqueIndex(c, user.email)
                  THEN /\ users' = [u \in DOMAIN users \cup {c} |->
                                       IF u = c THEN user ELSE users[u]]
                       /\ res' = [status |-> 201,
                                  body |-> [message |-> "Usuario registrado exitosamente",
                                            token |-> c,
                                            user |-> [id |-> c,
                                                      name |-> user.name,
                                                      email |-> user.email]]]
                  ELSE /\ users' = users
                       /\ res' = InternalError
        /\ calls' = [calls EXCEPT ![c] = Idle]
        /\ UNCHANGED <<videos, nextCommentId, now, randomBytes>>

----------------------------------------------------------------------------
(* Password reset.  randomBytes counts the reset tokens drawn so far: the  *)
(* n-th crypto.randomBytes(32) is the token n, so no token is drawn twice. *)
(* The clock counts hours.                                                 *)

\* new Date(Date.now() + 3600000), one hour
ResetLifetime == 1
PasswordMinlength == 6

\* req.body.token: a reset token, drawn already or not, or nothing
NoTokenParam == [present |-> FALSE, value |-> 0]
ResetTokenInputs == {NoTokenParam} \cup {Given(t) : t \in 1..MaxResetTokens}
\* req.body.newPassword; "" is falsy
PasswordInputs == {"", "12345", "secret2", "secret3"}
\* req.body.email of forgotPassword
ForgotEmailInputs == {NoString, Given("ana@mail.co"), Given("zoe@mail.co")}

ForgotPasswordMessage ==
    [status |-> 200,
     body |-> [message |-> "Si el email existe, recibirás un correo con instrucciones"]]

EmailError ==
    [status |-> 500,
     body |-> [error |-> "Error al enviar el correo electrónico",
               message |-> "Por favor, configura las credenciales de email en el archivo .env"]]

\* the handler from the answer of User.findOne({ email }) up to
\* await user.save(); c is the invocation
forgotPassword(c, request) ==
    LET email == request.email
    IN  IF \A u \in DOMAIN users : users[u].email # toLowerCase(email.value)
        THEN /\ res' = ForgotPasswordMessage
             /\ UNCHANGED <<calls, randomBytes>>
        ELSE
        LET id == CHOOSE u \in DOMAIN users :
                      users[u].email = toLowerCase(email.value)
            resetToken == randomBytes + 1
            user == [users[id] EXCEPT
                        !.resetPasswordToken = Given(sha256(resetToken)),
                        !.resetPasswordExpires = Given(now + ResetLifetime)]
        IN  /\ randomBytes' = resetToken
            /\ calls' = [calls EXCEPT ![c] =
                   [pc |-> "save", req |-> request, loaded |-> id,
                    user |-> users[id], saved |-> user, stale |-> FALSE]]
            /\ res' = NoResponse

\* POST /api/auth/forgot-password, no auth: the check of the body, then
\* await User.findOne({ email })
ForgotPasswordReq ==
    \E c \in Invocations, email \in ForgotEmailInputs :
        /\ FreeCall(c)
        /\ req' = [op |-> "forgotPassword", email |-> email]
        /\ IF ~email.present
           THEN /\ res' = Error(400, "El email es requerido")
                /\ UNCHANGED <<calls, randomBytes>>
           ELSE forgotPassword(c, req')
        /\ UNCHANGED <<users, videos, nextCommentId, now>>

\* await user.save() with the token and its expiry, up to
\* await sendPasswordResetEmail; a save that throws reaches the outer catch
ForgotPasswordSave ==
    \E c \in Invocations :
        /\ calls[c].pc = "save"
        /\ calls[c].req.op = "forgotPassword"
        /\ req' = calls[c].req
        /\ IF UserSaveAccepted(calls[c])
           THEN /\ users' = UserSaved(calls[c]).users
                /\ calls' = [UserSaved(calls[c]).calls EXCEPT ![c] =
                       [calls[c] EXCEPT !.pc = "send", !.user = calls[c].saved]]
                /\ res' = NoResponse
           ELSE /\ users' = users
                /\ calls' = [calls EXCEPT ![c] = Idle]
                /\ res' = InternalError
        /\ UNCHANGED <<videos, nextCommentId, now, randomBytes>>

\* await sendPasswordResetEmail: it resolves, or it throws (the mail
\* configuration is incomplete, the transport fails) and the inner catch
\* clears the two fields in memory, up to its await user.save()
ForgotPasswordSend ==
    \E c \in Invocations, delivered \in BOOLEAN :
        /\ calls[c].pc = "send"
        /\ req' = calls[c].req
        /\ IF delivered
           THEN /\ res' = ForgotPasswordMessage
                /\ calls' = [calls EXCEPT ![c] = Idle]
           ELSE /\ res' = NoResponse
                /\ calls' = [calls EXCEPT ![c] =
                       [calls[c] EXCEPT
                           !.pc = "clear",
                           !.saved = [calls[c].user EXCEPT
                               !.resetPasswordToken = NoResetToken,
                               !.resetPasswordExpires = NoResetExpires]]]
        /\ UNCHANGED <<users, videos, nextCommentId, now, randomBytes>>

\* await user.save() of the inner catch, then its 500 answer
ForgotPasswordClear ==
    \E c \in Invocations :
        /\ calls[c].pc = "clear"
        /\ req' = calls[c].req
        /\ IF UserSaveAccepted(calls[c])
           THEN /\ users' = UserSaved(calls[c]).users
                /\ calls' = [UserSaved(calls[c]).calls EXCEPT ![c] = Idle]
                /\ res' = EmailError
           ELSE /\ users' = users
                /\ calls' = [calls EXCEPT ![c] = Idle]
                /\ res' = InternalError
        /\ UNCHANGED <<videos, nextCommentId, now, randomBytes>>

\* User.findOne({ resetPasswordToken, resetPasswordExpires: { $gt: at } });
\* `at` is the Date.now() of the handler when it built the filter
resetCandidates(hashedToken, at) ==
    {u \in DOMAIN users :
        /\ users[u].resetPasswordToken = Given(hashedToken)
        /\ users[u].resetPasswordExpires.present
        /\ users[u].resetPasswordExpires.value > at}

ResetPasswordMessage(id, user) ==
    [status |-> 200,
     body |-> [message |-> "Contraseña actualizada exitosamente",
               token |-> id,
               user |-> [id |-> id, name |-> user.name, email |-> user.email]]]

\* the handler from the answer of User.findOne up to await user.save()
resetPassword(c, request, at) ==
    IF resetCandidates(sha256(request.token.value), at) = {}
    THEN /\ res' = Error(400, "Token inválido o expirado")
         /\ calls' = [calls EXCEPT ![c] = Idle]
    ELSE
    LET id == CHOOSE u \in resetCandidates(sha256(request.token.value), at) : TRUE
        user == [users[id] EXCEPT
                    !.password = bcryptHash(request.newPassword),
                    !.resetPasswordToken = NoResetToken,
                    !.resetPasswordExpires = NoResetExpires]
    IN  AwaitUserSave(c, request, id, user, ResetPasswordMessage(id, user))

\* POST /api/auth/reset-password, no auth: the checks of the body, the hash
\* of the token and the filter with its Date.now(), up to await User.findOne
ResetPasswordReq ==
    \E c \in Invocations, token \in ResetTokenInputs, newPassword \in PasswordInputs :
        /\ FreeCall(c)
        /\ req' = [op |-> "resetPassword", token |-> token,
                   newPassword |-> newPassword]
        /\ IF ~token.present \/ newPassword = ""
           THEN /\ res' = Error(400, "Token y nueva contraseña son requeridos")
                /\ UNCHANGED calls
           ELSE IF Len(newPassword) < PasswordMinlength
           THEN /\ res' = Error(400, "La contraseña debe tener al menos 6 caracteres")
                /\ UNCHANGED calls
           ELSE /\ res' = NoResponse
                /\ calls' = [calls EXCEPT ![c] =
                       [pc |-> "findOne", req |-> req', at |-> now]]
        /\ UNCHANGED <<users, videos, nextCommentId, now, randomBytes>>

\* the answer of User.findOne, up to await user.save()
ResetPasswordFindOne ==
    \E c \in Invocations :
        /\ calls[c].pc = "findOne"
        /\ calls[c].req.op = "resetPassword"
        /\ req' = calls[c].req
        /\ resetPassword(c, req', calls[c].at)
        /\ UNCHANGED <<users, videos, nextCommentId, now, randomBytes>>

\* await user.save(), then the answer
ResetPasswordSave ==
    \E c \in Invocations :
        /\ calls[c].pc = "save"
        /\ calls[c].req.op = "resetPassword"
        /\ UserSave(c)
        /\ UNCHANGED <<videos, nextCommentId, now, randomBytes>>

----------------------------------------------------------------------------
(* Catalog ingestion *)

MaxBatch == 2

\* data.videos of the catalog's answer; `complete` is false for an item
\* without a field the schema requires
CatalogItems == [id : PexelsIds, complete : BOOLEAN]
Batches == UNION {[1..n -> CatalogItems] : n \in 0..MaxBatch}
\* no API key, an answer that is not ok, or a page of videos
FetchOutcomes ==
    {[kind |-> "noKey", status |-> 0, videos |-> <<>>],
     [kind |-> "notOk", status |-> 429, videos |-> <<>>]}
        \cup {[kind |-> "ok", status |-> 200, videos |-> b] : b \in Batches}

\* Video.findOne({ pexelsId: video.id })
existingVideo(store, pexelsId) ==
    {v \in DOMAIN store : store[v].pexelsId = pexelsId}

\* the unique index on pexelsId accepts the insert
uniquePexelsId(store, pexelsId) ==
    \A v \in DOMAIN store : store[v].pexelsId # pexelsId

newVideoId(store) == CHOOSE v \in NewVideoIds : v \notin DOMAIN store

\* the loop over data.videos goes on with the rest of the page, or the
\* handler answers when there is none
saveVideos(c, request, savedVideos, batch) ==
    IF batch = <<>>
    THEN /\ res' = [status |-> 200,
                    body |-> [message |-> "Videos populares obtenidos y guardados exitosamente",
                              videos |-> savedVideos,
                              totalSaved |-> Len(savedVideos)]]
         /\ calls' = [calls EXCEPT ![c] = Idle]
    ELSE /\ res' = NoResponse
         /\ calls' = [calls EXCEPT ![c] =
                [pc |-> "findOne", req |-> request,
                 savedVideos |-> savedVideos, batch |-> batch]]

\* the handler up to the first await Video.findOne; await fetch and
\* await response.json() do not touch the store
fetchVideosFromPexels(c, request, outcome) ==
    IF outcome.kind = "noKey"
    THEN /\ res' = Error(500, "API Key de Pexels no configurada")
         /\ UNCHANGED calls
    ELSE
    IF outcome.kind = "notOk"
    THEN /\ res' = [status |-> outcome.status,
                    body |-> [error |-> "Error al obtener videos de Pexels",
                              status |-> outcome.status]]
         /\ UNCHANGED calls
    ELSE saveVideos(c, request, <<>>, outcome.videos)

\* GET /api/videos/fetch, no auth, no query
FetchVideosReq ==
    \E c \in Invocations, outcome \in FetchOutcomes :
        /\ FreeCall(c)
        /\ req' = [op |-> "fetchVideos", videos |-> outcome.videos]
        /\ fetchVideosFromPexels(c, req', outcome)
        /\ UNCHANGED <<users, videos, nextCommentId, now, randomBytes>>

\* the lookup that puts the video it finds back to the state of a new one
FetchVideosFindOne_refreshing ==
    \E c \in Invocations :
        /\ calls[c].pc = "findOne"
        /\ calls[c].req.op = "fetchVideos"
        /\ req' = calls[c].req
        /\ LET video == Head(calls[c].batch)
               found == existingVideo(videos, video.id)
           IN  IF found # {}
               THEN /\ videos' = [v \in DOMAIN videos |->
                                     IF v \in found THEN NewVideo(video.id)
                                     ELSE videos[v]]
                    /\ saveVideos(c, req',
                                  Append(calls[c].savedVideos, NewVideo(video.id)),
                                  Tail(calls[c].batch))
               ELSE /\ videos' = videos
                    /\ res' = NoResponse
                    /\ calls' = [calls EXCEPT ![c] = [@ EXCEPT !.pc = "insert"]]
        /\ UNCHANGED <<users, nextCommentId, now, randomBytes>>

\* await Video.findOne({ pexelsId: video.id }): a video that exists joins the
\* answer as it is stored, another one is built and awaits its save
FetchVideosFindOne ==
    \E c \in Invocations :
        /\ calls[c].pc = "findOne"
        /\ calls[c].req.op = "fetchVideos"
        /\ req' = calls[c].req
        /\ LET video == Head(calls[c].batch)
               found == existingVideo(videos, video.id)
           IN  IF found # {}
               THEN saveVideos(c, req',
                               Append(calls[c].savedVideos,
                                      videos[CHOOSE v \in found : TRUE]),
                               Tail(calls[c].batch))
               ELSE /\ res' = NoResponse
                    /\ calls' = [calls EXCEPT ![c] = [@ EXCEPT !.pc = "insert"]]
        /\ UNCHANGED <<users, videos, nextCommentId, now, randomBytes>>

\* await newVideo.save(): validation, then the insert, which the unique
\* index on pexelsId can refuse; a save that throws ends the loop in the catch
FetchVideosSave ==
    \E c \in Invocations :
        /\ calls[c].pc = "insert"
        /\ req' = calls[c].req
        /\ LET video == Head(calls[c].batch)
               id == newVideoId(videos)
               saved == NewVideo(video.id)
           IN  IF video.complete /\ uniquePexelsId(videos, video.id)
               THEN /\ videos' = [v \in DOMAIN videos \cup {id} |->
                                     IF v = id THEN saved ELSE videos[v]]
                    /\ saveVideos(c, req', Append(calls[c].savedVideos, saved),
                                  Tail(calls[c].batch))
               ELSE /\ videos' = videos
                    /\ res' = InternalError
                    /\ calls' = [calls EXCEPT ![c] = Idle]
        /\ UNCHANGED <<users, nextCommentId, now, randomBytes>>

----------------------------------------------------------------------------
(* toggleLike whose second save is refused by the database *)

\* a failing save that would put the user's list back
ToggleLikeSaveVideoFails_restoring ==
    \E c \in Invocations :
        /\ calls[c].pc = "save"
        /\ calls[c].req.op = "toggleLike"
        /\ req' = calls[c].req
        /\ res' = InternalError
        /\ users' = [users EXCEPT ![req'.token].moviesLiked =
                        IF calls[c].response.body.liked
                        THEN withoutLike(@, req'.videoId)
                        ELSE Append(@, req'.videoId)]
        /\ calls' = [calls EXCEPT ![c] = Idle]
        /\ UNCHANGED <<videos, nextCommentId, now, randomBytes>>

\* await video.save() rejects (the connection is lost, the write times out):
\* the catch answers 500; user.save() has been done and is not undone
ToggleLikeSaveVideoFails ==
    \E c \in Invocations :
        /\ calls[c].pc = "save"
        /\ calls[c].req.op = "toggleLike"
        /\ req' = calls[c].req
        /\ res' = InternalError
        /\ calls' = [calls EXCEPT ![c] = Idle]
        /\ UNCHANGED <<users, videos, nextCommentId, now, randomBytes>>

----------------------------------------------------------------------------
(* The caller's own rating *)

\* the handler from the answer of Video.findById
getUserRating(userId, videoId) ==
    IF videoId \notin DOMAIN videos
    THEN res' = Error(404, "Video no encontrado")
    ELSE LET video == videos[videoId]
             index == ratingIndexOf(video.ratings, userId)
         IN  res' = [status |-> 200,
                     body |-> [userRating |-> IF index # 0
                                              THEN Given(video.ratings[index].rating)
                                              ELSE Absent,
                               averageRating |-> video.averageRating,
                               totalRatings |-> Len(video.ratings)]]

\* GET /:videoId/rating: auth with its await User.findById, then the handler
\* up to await Video.findById(videoId)
GetUserRatingReq ==
    \E c \in Invocations, token \in Tokens, videoId \in VideoIdParams :
        /\ FreeCall(c)
        /\ req' = [op |-> "getUserRating", token |-> token, videoId |-> videoId]
        /\ IF ~auth(token)
           THEN Unauthorized /\ UNCHANGED calls
           ELSE /\ AwaitFindVideo(c, req')
                /\ UNCHANGED <<users, videos, nextCommentId, now, randomBytes>>

GetUserRatingFindVideo ==
    \E c \in Invocations :
        /\ calls[c].pc = "findVideo"
        /\ calls[c].req.op = "getUserRating"
        /\ req' = calls[c].req
        /\ getUserRating(req'.token, req'.videoId)
        /\ calls' = [calls EXCEPT ![c] = Idle]
        /\ UNCHANGED <<users, videos, nextCommentId, now, randomBytes>>

----------------------------------------------------------------------------
(* Initial state: registered users, ingested videos without engagement *)

Init ==
    /\ users = [u \in UserIds |-> NewUser(UserName(u), UserEmail(u))]
    /\ videos = [v \in VideoIds |-> NewVideo(SeedPexelsId)]
    /\ nextCommentId = 1
    /\ now = 1
    /\ calls = [c \in CallIds |-> Idle]
    /\ randomBytes = 0
    /\ req = NoRequest
    /\ res = NoResponse

\* time passes; new Date() reads `now`
Tick ==
    /\ now' = now + 1
    /\ req' = NoRequest
    /\ res' = NoResponse
    /\ UNCHANGED <<users, videos, nextCommentId, calls, randomBytes>>

\* no request is being served: the next one overlaps with none
NoneInFlight == \A c \in CallIds : calls[c] = Idle

\* the steps that follow the arrival of a request, handler by handler
RatingSteps ==
    \/ AddOrUpdateRatingFindVideo
    \/ AddOrUpdateRatingSave
    \/ DeleteRatingFindVideo
    \/ DeleteRatingSave

AddCommentSteps == AddCommentFindVideo \/ AddCommentFindUser \/ AddCommentSave

CommentSteps ==
    \/ AddCommentSteps
    \/ EditCommentFindVideo
    \/ EditCommentSave
    \/ DeleteCommentFindVideo
    \/ DeleteCommentSave

ToggleLikeSteps ==
    \/ ToggleLikeFindVideo
    \/ ToggleLikeFindUser
    \/ ToggleLikeSaveUser
    \/ ToggleLikeSaveVideo

\* rating upserts and removals, one request at a time
NextRating ==
    \/ NoneInFlight /\ AddOrUpdateRatingReq
    \/ NoneInFlight /\ DeleteRatingReq
    \/ RatingSteps

SpecRating == Init /\ [][NextRating]_vars

\* comment authoring, editing and deletion, one request at a time; no comment
\* is written once MaxCommentIds ids are taken
NextComments ==
    \/ NoneInFlight /\ AddCommentReq /\ nextCommentId <= MaxCommentIds
    \/ NoneInFlight /\ EditCommentReq
    \/ NoneInFlight /\ DeleteCommentReq
    \/ CommentSteps

SpecComments == Init /\ [][NextComments]_vars

\* comment authoring and listing, one request at a time; the comments all
\* carry the same text
NextListing ==
    \/ NoneInFlight /\ AddCommentReq /\ req'.text = Text(1, 1, 1)
          /\ nextCommentId <= MaxCommentIds
    \/ AddCommentSteps
    \/ NoneInFlight /\ GetCommentsReq
    \/ NoneInFlight /\ Tick /\ now < MaxTime

SpecListing == Init /\ [][NextListing]_vars

\* like toggles and account removals, one request at a time
NextLikes ==
    \/ NoneInFlight /\ ToggleLikeReq
    \/ ToggleLikeSteps
    \/ NoneInFlight /\ DeleteUserReq
    \/ DeleteUserFindByIdAndDelete

SpecLikes == Init /\ [][NextLikes]_vars

\* like toggles that overlap, and account removals between their steps; no
\* toggle starts once a video counts MaxLikes likes
NextLikeSteps ==
    \/ ToggleLikeReq /\ \A v \in DOMAIN videos : videos[v].likesCount < MaxLikes
    \/ ToggleLikeSteps
    \/ DeleteUserReq
    \/ DeleteUserFindByIdAndDelete

SpecLikeSteps == Init /\ [][NextLikeSteps]_vars

\* favorites, one request at a time
NextFavorites ==
    \/ NoneInFlight /\ AddFavoriteReq
    \/ AddFavoriteFindUser
    \/ AddFavoriteSave
    \/ NoneInFlight /\ RemoveFavoriteReq
    \/ RemoveFavoriteFindUser
    \/ RemoveFavoriteSave

SpecFavorites == Init /\ [][NextFavorites]_vars

\* ratings and their statistics, one request at a time
NextStats ==
    \/ NoneInFlight /\ AddOrUpdateRatingReq
    \/ NoneInFlight /\ DeleteRatingReq
    \/ RatingSteps
    \/ NoneInFlight /\ GetRatingStatsReq

SpecStats == Init /\ [][NextStats]_vars

\* comments and profile updates, one request at a time; the comments all
\* carry the same text
NextRename ==
    \/ NoneInFlight /\ AddCommentReq /\ req'.text = Text(1, 1, 1)
          /\ nextCommentId <= MaxCommentIds
    \/ AddCommentSteps
    \/ NoneInFlight /\ UpdateUserReq
    \/ UpdateUserFindByIdAndUpdate

SpecRename == Init /\ [][NextRename]_vars

\* every operation behind the gate, account removals and forged credentials,
\* one request at a time; the ratings all carry 5 stars, one comment is
\* written and the texts are all the same
NextGate ==
    \/ NoneInFlight /\ ToggleLikeReq
    \/ ToggleLikeSteps
    \/ NoneInFlight /\ AddOrUpdateRatingReq /\ req'.rating = Given(Num(5))
    \/ NoneInFlight /\ DeleteRatingReq
    \/ RatingSteps
    \/ NoneInFlight /\ AddCommentReq /\ req'.text = Text(1, 1, 1)
          /\ nextCommentId = 1
    \/ NoneInFlight /\ EditCommentReq /\ req'.text = Text(1, 1, 1)
    \/ NoneInFlight /\ DeleteCommentReq
    \/ CommentSteps
    \/ NoneInFlight /\ DeleteUserReq
    \/ DeleteUserFindByIdAndDelete
    \/ NoneInFlight /\ ForgedTokenReq
    \/ NoneInFlight /\ ForgedTokenUnroutedReq

SpecGate == Init /\ [][NextGate]_vars

\* registrations that overlap, and updates of the email, one at a time,
\* between their steps
NextAccounts ==
    \/ RegisterFindOne
    \/ RegisterSave
    \/ UpdateUserReq /\ ~req'.name.present
          /\ \A c \in Invocations : calls[c] = Idle
    \/ UpdateUserFindByIdAndUpdate

SpecAccounts == Init /\ [][NextAccounts]_vars

\* resetPassword requests that overlap with each other, forgotPassword
\* requests that overlap with none, and the hours that pass between and
\* during them; no reset is asked for once MaxResetTokens tokens are drawn
NextReset ==
    \/ NoneInFlight /\ ForgotPasswordReq /\ randomBytes < MaxResetTokens
    \/ ForgotPasswordSave
    \/ ForgotPasswordSend
    \/ ForgotPasswordClear
    \/ ResetPasswordReq
          /\ \A c \in Invocations :
                calls[c] = Idle \/ calls[c].req.op = "resetPassword"
    \/ ResetPasswordFindOne
    \/ ResetPasswordSave
    \/ Tick /\ now < MaxTime

SpecReset == Init /\ [][NextReset]_vars

\* ingestion of catalog pages between likes, ratings and comments of u1, one
\* request at a time
NextIngest ==
    \/ NoneInFlight /\ FetchVideosReq
    \/ FetchVideosFindOne
    \/ FetchVideosSave
    \/ NoneInFlight /\ ToggleLikeReq /\ req'.token = "u1"
    \/ ToggleLikeSteps
    \/ NoneInFlight /\ AddOrUpdateRatingReq /\ req'.rating = Given(Num(5))
          /\ req'.token = "u1"
    \/ AddOrUpdateRatingFindVideo
    \/ AddOrUpdateRatingSave
    \/ NoneInFlight /\ AddCommentReq /\ req'.text = Text(1, 1, 1)
          /\ req'.token = "u1" /\ nextCommentId = 1
    \/ AddCommentSteps

SpecIngest == Init /\ [][NextIngest]_vars

\* the three handlers that validate their body, with every input, one request
\* at a time
NextValidation ==
    \/ NoneInFlight /\ AddOrUpdateRatingReq /\ req'.token = "u1"
    \/ AddOrUpdateRatingFindVideo
    \/ AddOrUpdateRatingSave
    \/ NoneInFlight /\ AddCommentReq /\ nextCommentId = 1
    \/ AddCommentSteps
    \/ NoneInFlight /\ EditCommentReq
    \/ EditCommentFindVideo
    \/ EditCommentSave

SpecValidation == Init /\ [][NextValidation]_vars

\* toggles that run one after another and whose second save may fail; no
\* toggle starts once a video counts MaxLikes likes
NextLikeFailure ==
    \/ NoneInFlight /\ ToggleLikeReq
          /\ \A v \in DOMAIN videos : videos[v].likesCount < MaxLikes
    \/ ToggleLikeSteps
    \/ ToggleLikeSaveVideoFails

SpecLikeFailure == Init /\ [][NextLikeFailure]_vars

\* rating requests of 1 and 5 stars that overlap; none starts once the video
\* has MaxRatings ratings
NextRatingSteps ==
    \/ AddOrUpdateRatingReq /\ req'.rating \in {Given(Num(1)), Given(Num(5))}
          /\ \A v \in DOMAIN videos : Len(videos[v].ratings) < MaxRatings
    \/ AddOrUpdateRatingFindVideo
    \/ AddOrUpdateRatingSave

SpecRatingSteps == Init /\ [][NextRatingSteps]_vars

\* the three reads between comments and ratings of u1 and the passing of
\* time, one request at a time
NextReads ==
    \/ NoneInFlight /\ AddCommentReq /\ req'.text = Text(1, 1, 1)
          /\ req'.token = "u1" /\ nextCommentId <= MaxCommentIds
    \/ AddCommentSteps
    \/ NoneInFlight /\ AddOrUpdateRatingReq /\ req'.rating = Given(Num(5))
          /\ req'.token = "u1"
    \/ AddOrUpdateRatingFindVideo
    \/ AddOrUpdateRatingSave
    \/ NoneInFlight /\ Tick /\ now < MaxTime
    \/ NoneInFlight /\ GetCommentsReq
    \/ NoneInFlight /\ GetRatingStatsReq
    \/ NoneInFlight /\ GetUserRatingReq
    \/ GetUserRatingFindVideo

SpecReads == Init /\ [][NextReads]_vars

----------------------------------------------------------------------------
(* Ratings: C1 - C6, checked under SpecRating *)

\* C1: after any sequence of completed addOrUpdateRating and deleteRating
\* requests the stored averageRating of every video is the arithmetic mean of
\* the rating values in its ratings, and 0 when ratings is empty.
C1_AverageIsMean ==
    \A v \in DOMAIN videos :
        LET ratings == videos[v].ratings
            average == videos[v].averageRating
            RECURSIVE TwiceSum(_)
            TwiceSum(i) == IF i = 0 THEN 0
                           ELSE TwiceSum(i - 1)
                                + (2 * ratings[i].rating.num) \div ratings[i].rating.den
        IN  /\ \A i \in 1..Len(ratings) : ratings[i].rating.den \in {1, 2}
            /\ IF Len(ratings) = 0
               THEN average = Num(0)
               ELSE /\ average.den > 0
                    /\ average.num * 2 * Len(ratings) = average.den * TwiceSum(Len(ratings))

\* two users have rated and the mean is not an integer
C1_Witness ==
    /\ req.op = "addOrUpdateRating"
    /\ res.status = 200
    /\ \E v \in DOMAIN videos :
        /\ Len(videos[v].ratings) = 2
        /\ videos[v].averageRating.den # 1

\* C2: a video's ratings list holds at most one entry for each userId.
C2_OneRatingPerUser ==
    \A v \in DOMAIN videos :
        \A i, j \in 1..Len(videos[v].ratings) :
            videos[v].ratings[i].userId = videos[v].ratings[j].userId => i = j

\* the first of two raters has rated again
C2_Witness ==
    /\ req.op = "addOrUpdateRating"
    /\ res.status = 200
    /\ res.body.message = "Calificación actualizada"
    /\ req.videoId \in DOMAIN videos
    /\ Len(videos[req.videoId].ratings) = 2
    /\ videos[req.videoId].ratings[1].userId = req.token

\* C3: addOrUpdateRating with a rating that is absent, 0, 6 or 3.5 is answered
\* 400, and every rating value stored is an integer in 1..5.
C3_InvalidRatingRejected ==
    /\ (/\ req.op = "addOrUpdateRating"
        /\ res.status \notin {0, 401}
        /\ req.rating \in {Absent, Given(Num(0)), Given(Num(6)), Given(Frac(7, 2))})
       => res.status = 400
    /\ \A v \in DOMAIN videos :
        \A i \in 1..Len(videos[v].ratings) :
            /\ IsInteger(videos[v].ratings[i].rating)
            /\ videos[v].ratings[i].rating.num \in 1..5

\* C4: a user who has a rating on the video and sends another valid value
\* keeps the size of ratings, the entry holds the new value, averageRating is
\* the mean with the new value only and the answer says 'actualizada'; a first
\* rating adds one entry and the answer says 'agregada'.
C4_UpsertReplaces ==
    [][(/\ req'.op = "addOrUpdateRating"
        /\ res'.status \notin {0, 401}
        /\ req'.videoId \in DOMAIN videos
        /\ req'.rating \in {Given(Num(k)) : k \in 1..5})
       => LET old == videos[req'.videoId].ratings
              new == videos'[req'.videoId].ratings
              average == videos'[req'.videoId].averageRating
              Mine(r) == r.userId = req'.token
              Others(r) == r.userId # req'.token
              RECURSIVE TwiceSum(_)
              TwiceSum(i) == IF i = 0 THEN 0
                             ELSE TwiceSum(i - 1)
                                  + (2 * new[i].rating.num) \div new[i].rating.den
          IN  /\ res'.status = 200
              /\ res'.body.userRating = req'.rating.value
              /\ Len(SelectSeq(new, Mine)) = 1
              /\ SelectSeq(new, Mine)[1].rating = req'.rating.value
              /\ SelectSeq(new, Others) = SelectSeq(old, Others)
              /\ average.num * 2 * Len(new) = average.den * TwiceSum(Len(new))
              /\ IF \E i \in 1..Len(old) : Mine(old[i])
                 THEN /\ Len(new) = Len(old)
                      /\ \A i \in 1..Len(old) : new[i].userId = old[i].userId
                      /\ res'.body.message = "Calificación actualizada"
                 ELSE /\ Len(new) = Len(old) + 1
                      /\ res'.body.message = "Calificación agregada"]_vars

\* the only rater has replaced the rating
C4_Witness ==
    /\ req.op = "addOrUpdateRating"
    /\ res.status = 200
    /\ res.body.message = "Calificación actualizada"
    /\ req.videoId \in DOMAIN videos
    /\ Len(videos[req.videoId].ratings) = 1
    /\ videos[req.videoId].ratings[1].rating = req.rating.value
    /\ videos[req.videoId].averageRating = req.rating.value

\* C5: deleteRating by a caller without a rating on the video is answered 404
\* and changes nothing; by a caller with a rating it removes exactly that
\* entry, and averageRating is 0 when it was the last one.
C5_DeleteRating ==
    [][(/\ req'.op = "deleteRating"
        /\ res'.status \notin {0, 401}
        /\ req'.videoId \in DOMAIN videos)
       => LET old == videos[req'.videoId].ratings
              new == videos'[req'.videoId].ratings
              Mine(r) == r.userId = req'.token
              Others(r) == r.userId # req'.token
          IN  IF \E i \in 1..Len(old) : Mine(old[i])
              THEN /\ res'.status = 200
                   /\ new = SelectSeq(old, Others)
                   /\ Len(new) = Len(old) - 1
                   /\ res'.body.totalRatings = Len(new)
                   /\ Len(new) = 0 => videos'[req'.videoId].averageRating = Num(0)
                   /\ videos'[req'.videoId].comments = videos[req'.videoId].comments
              ELSE /\ res'.status = 404
                   /\ videos' = videos]_vars

\* the last rating has been removed
C5_Witness ==
    /\ req.op = "deleteRating"
    /\ res.status = 200
    /\ req.videoId \in DOMAIN videos
    /\ videos[req.videoId].ratings = <<>>
    /\ videos[req.videoId].averageRating = Num(0)

\* C6: an addOrUpdateRating or deleteRating request authenticated as user A
\* leaves every ratings entry of every other user in place, unchanged, and
\* adds no entry for another user.
C6_OnlyAuthorChanges ==
    [][req'.op \in {"addOrUpdateRating", "deleteRating"}
       => \A v \in DOMAIN videos :
            /\ v \in DOMAIN videos'
            /\ \A u \in UserIds \ {req'.token} :
                LET Of(r) == r.userId = u
                IN  SelectSeq(videos'[v].ratings, Of) = SelectSeq(videos[v].ratings, Of)]_vars

\* one of two raters has removed the rating and the other entry is still there
C6_Witness ==
    /\ req.op = "deleteRating"
    /\ res.status = 200
    /\ req.videoId \in DOMAIN videos
    /\ Len(videos[req.videoId].ratings) = 1
    /\ videos[req.videoId].ratings[1].userId # req.token

----------------------------------------------------------------------------
(* Comments: C7, C8 checked under SpecComments; C9, C10 under SpecListing *)

\* C7 (as stated): editComment and deleteComment on an existing comment by an
\* authenticated caller who is not its author are answered 403 and leave the
\* stored videos as they were.
C7_NonAuthorForbidden ==
    [][(/\ req'.op \in {"editComment", "deleteComment"}
        /\ res'.status \notin {0, 401}
        /\ req'.videoId \in DOMAIN videos
        /\ \E i \in 1..Len(videos[req'.videoId].comments) :
              /\ videos[req'.videoId].comments[i].id = req'.commentId
              /\ videos[req'.videoId].comments[i].userId # req'.token)
       => /\ res'.status = 403
          /\ videos' = videos]_vars

\* C7 (amended): such a request never succeeds and leaves the stored videos as
\* they were; it is answered 403, except that editComment with an absent,
\* empty, white-space-only or over-long text is answered 400.  A request by
\* the author with a valid text succeeds.
C7_NonAuthorRefused ==
    [][(/\ req'.op \in {"editComment", "deleteComment"}
        /\ res'.status \notin {0, 401}
        /\ req'.videoId \in DOMAIN videos
        /\ \E i \in 1..Len(videos[req'.videoId].comments) :
              videos[req'.videoId].comments[i].id = req'.commentId)
       => LET comments == videos[req'.videoId].comments
              i == CHOOSE k \in 1..Len(comments) : comments[k].id = req'.commentId
              invalidText ==
                  /\ req'.op = "editComment"
                  /\ \/ ~req'.text.present
                     \/ req'.text.core = 0
                     \/ req'.text.lead + req'.text.core + req'.text.trail
                            > CommentTextMaxlength
          IN  IF comments[i].userId # req'.token
              THEN /\ videos' = videos
                   /\ res'.status = IF invalidText THEN 400 ELSE 403
              ELSE res'.status = IF invalidText THEN 400 ELSE 200]_vars

\* a caller who is not the author has tried to edit the comment with a valid text
C7_Witness ==
    /\ req.op = "editComment"
    /\ res.status = 403
    /\ req.videoId \in DOMAIN videos
    /\ \E i \in 1..Len(videos[req.videoId].comments) :
          /\ videos[req.videoId].comments[i].id = req.commentId
          /\ videos[req.videoId].comments[i].userId # req.token
          /\ videos[req.videoId].comments[i].text # Trim(req.text)

\* C8: addComment and editComment answer 400 and leave the videos unchanged
\* for an absent, empty or white-space-only text and for a text longer than
\* the maximum of the comment schema; a text of at most that length, the
\* maximum included, passes both handlers and is stored trimmed.
C8_CommentLength ==
    [][(/\ req'.op \in {"addComment", "editComment"}
        /\ res'.status \notin {0, 401})
       => LET text == req'.text
              length == text.lead + text.core + text.trail
              blank == ~text.present \/ text.core = 0
              old == IF req'.videoId \in DOMAIN videos
                     THEN videos[req'.videoId].comments ELSE <<>>
              new == IF req'.videoId \in DOMAIN videos
                     THEN videos'[req'.videoId].comments ELSE <<>>
          IN  IF blank \/ length > CommentTextMaxlength
              THEN /\ res'.status = 400
                   /\ videos' = videos
              ELSE /\ res'.status \notin {400, 500}
                   /\ (req'.op = "addComment" /\ req'.videoId \in DOMAIN videos)
                        => /\ res'.status = 201
                           /\ Len(new) = Len(old) + 1
                           /\ new[Len(new)].text = Text(0, text.core, 0)
                           /\ new[Len(new)].text.core <= CommentTextMaxlength
                   /\ (/\ req'.op = "editComment"
                       /\ \E i \in 1..Len(old) : /\ old[i].id = req'.commentId
                                                 /\ old[i].userId = req'.token)
                        => /\ res'.status = 200
                           /\ \E i \in 1..Len(new) :
                                 /\ new[i].id = req'.commentId
                                 /\ new[i].text = Text(0, text.core, 0)]_vars

\* a comment of exactly the maximum length has been added
C8_Witness ==
    /\ req.op = "addComment"
    /\ res.status = 201
    /\ req.text.lead + req.text.core + req.text.trail = CommentTextMaxlength
    /\ res.body.comment.text.core = CommentTextMaxlength

\* C9: getComments with page p >= 1 and limit L >= 1 on a video with n
\* comments returns the comments of ranks (p-1)*L+1 .. min(p*L, n) by
\* creation time descending, equal times in insertion order, with
\* totalPages = ceiling(n / L) and totalComments = n; for p = 2, L = 10 and
\* n = 25 these are the ranks 11..20 and totalPages is 3.
C9_Pagination ==
    /\ (/\ req.op = "getComments"
        /\ res.status = 200
        /\ req.page.present /\ req.page.value >= 1
        /\ req.limit.present /\ req.limit.value >= 1)
       => LET comments == videos[req.videoId].comments
              n == Len(comments)
              p == req.page.value
              L == req.limit.value
              Rank(i) == 1 + Cardinality({j \in 1..n :
                                 comments[j].createdAt > comments[i].createdAt})
                           + Cardinality({j \in 1..(i - 1) :
                                 comments[j].createdAt = comments[i].createdAt})
              first == (p - 1) * L + 1
              last == IF p * L < n THEN p * L ELSE n
              page == res.body.comments
          IN  /\ res.body.currentPage = p
              /\ res.body.totalComments = n
              /\ res.body.totalPages * L >= n
              /\ (res.body.totalPages - 1) * L < n
              /\ Len(page) = IF last >= first THEN last - first + 1 ELSE 0
              /\ \A k \in 1..Len(page) :
                    \E i \in 1..n : Rank(i) = first + k - 1 /\ page[k] = comments[i]
    /\ req = NoRequest /\ nextCommentId = 1
       => LET comments == [i \in 1..25 |->
                              [id |-> i, userId |-> "u1", userName |-> UserName("u1"),
                               text |-> Text(0, 1, 0), createdAt |-> i]]
              page == Slice(sortedComments(comments), (2 - 1) * 10, (2 - 1) * 10 + 10)
          IN  /\ Len(page) = 10
              /\ \A k \in 1..10 : page[k] = comments[25 - (10 + k) + 1]
              /\ Ceil(25, 10) = 3

\* the second page of one comment each, of a video with two comments
C9_Witness ==
    /\ req.op = "getComments"
    /\ res.status = 200
    /\ req.page = Param(2)
    /\ req.limit = Param(1)
    /\ res.body.totalPages = 2
    /\ Len(res.body.comments) = 1
    /\ res.body.comments[1] = videos[req.videoId].comments[1]
    /\ videos[req.videoId].comments[2].createdAt > videos[req.videoId].comments[1].createdAt

\* C10: getComments uses page 1 when the page parameter is absent, zero or
\* negative and limit 20 when the limit parameter is absent, zero or negative,
\* so currentPage is at least 1 and totalPages is not negative.
C10_DefaultsForNonPositive ==
    (req.op = "getComments" /\ res.status = 200)
       => LET n == Len(videos[req.videoId].comments)
              page == IF ~req.page.present \/ req.page.value <= 0
                      THEN 1 ELSE req.page.value
              limit == IF ~req.limit.present \/ req.limit.value <= 0
                       THEN 20 ELSE req.limit.value
          IN  /\ res.body.currentPage = page
              /\ res.body.currentPage >= 1
              /\ res.body.totalPages >= 0
              /\ res.body.totalPages * limit >= n
              /\ (res.body.totalPages - 1) * limit < n

----------------------------------------------------------------------------
(* Likes: C11, C13 checked under SpecLikeSteps; C12 under SpecLikes *)

\* C11: in every state in which no request is running, two toggleLike
\* requests in a row by the same user on the same video, with no other
\* request between them, bring the video's likesCount and the user's
\* liked-state for the video back to what they were.
C11_ToggleTwiceRestores ==
    NoneInFlight
       => \A u \in DOMAIN users, v \in DOMAIN videos :
            LET first == toggled(users[u], videos[v], v)
                second == toggled(first.user, first.video, v)
            IN  /\ second.video.likesCount = videos[v].likesCount
                /\ alreadyLiked(second.user, v) = alreadyLiked(users[u], v)

\* C12: after any sequence of toggleLike and deleteUser requests that do not
\* overlap, the likesCount of every video is at least 0 and is the number of
\* existing users whose moviesLiked holds the video.
C12_LikesCountIsLikers ==
    NoneInFlight
       => \A v \in DOMAIN videos :
            /\ videos[v].likesCount >= 0
            /\ videos[v].likesCount =
                  Cardinality({u \in DOMAIN users : alreadyLiked(users[u], v)})

\* C13: a toggleLike whose video id does not resolve, or whose caller's user
\* document does not resolve, is answered 404 and has saved nothing: no
\* moviesLiked and no likesCount is changed.  A toggleLike answered 200
\* reports the liked-state and the likesCount of the documents it has saved.
C13_ToggleLikeNotFound ==
    [][\A c \in Invocations :
        (/\ req'.op = "toggleLike"
         /\ res'.status # 0
         /\ calls[c] # Idle
         /\ calls'[c] = Idle)
        => LET v == req'.videoId
               u == req'.token
               call == calls[c]
           IN  /\ (call.pc = "findVideo" /\ v \notin DOMAIN videos)
                    => res'.status = 404
               /\ (call.pc = "findUser" /\ u \notin DOMAIN users)
                    => res'.status = 404
               /\ res'.status = 404
                    => /\ users' = users
                       /\ videos' = videos
                       /\ call.pc \in {"findVideo", "findUser"}
                       /\ v \notin DOMAIN videos \/ u \notin DOMAIN users
               /\ res'.status = 200
                    => /\ call.pc = "save"
                       /\ res'.body.liked = alreadyLiked(call.result.user, v)
                       /\ res'.body.likesCount = call.saved.likesCount
                       /\ videos'[v].likesCount # videos[v].likesCount
                            => res'.body.likesCount = videos'[v].likesCount
                       /\ videos[v].likesCount = call.video.likesCount
                            => res'.body.likesCount = videos'[v].likesCount]_vars

\* the caller's account was removed while the toggle was loading the video
C13_Witness ==
    /\ req.op = "toggleLike"
    /\ res = Error(404, "Usuario no encontrado")
    /\ req.token \notin DOMAIN users
    /\ req.videoId \in DOMAIN videos

----------------------------------------------------------------------------
(* Favorites: C14 checked under SpecFavorites *)

\* C14: after any sequence of addFavorite and removeFavorite requests no
\* favoriteVideos list holds a reference twice; addFavorite of a reference
\* that is in the caller's list is answered 400, removeFavorite of a
\* reference that is not in it is answered 404, and both leave the list as it
\* was; the other requests with a reference add it at the end or remove it.
C14_FavoritesNoDuplicates ==
    [][/\ \A u \in DOMAIN users' :
            \A i, j \in 1..Len(users'[u].favoriteVideos) :
                users'[u].favoriteVideos[i] = users'[u].favoriteVideos[j] => i = j
       /\ (req'.op \in {"addFavorite", "removeFavorite"}
           /\ res'.status \notin {0, 401}
           /\ req'.videoId # "")
          => LET old == users[req'.token].favoriteVideos
                 new == users'[req'.token].favoriteVideos
                 present == \E i \in 1..Len(old) : old[i] = req'.videoId
                 Other(id) == id # req'.videoId
             IN  /\ (req'.op = "addFavorite" /\ present)
                      => res'.status = 400 /\ users' = users
                 /\ (req'.op = "removeFavorite" /\ ~present)
                      => res'.status = 404 /\ users' = users
                 /\ (req'.op = "addFavorite" /\ ~present)
                      => res'.status = 200 /\ new = Append(old, req'.videoId)
                 /\ (req'.op = "removeFavorite" /\ present)
                      => res'.status = 200 /\ new = SelectSeq(old, Other)]_vars

\* a favorite has been added a second time and refused
C14_Witness ==
    /\ req.op = "addFavorite"
    /\ res = Error(400, "El video ya está en favoritos")
    /\ req.token \in DOMAIN users
    /\ \E i \in 1..Len(users[req.token].favoriteVideos) :
          users[req.token].favoriteVideos[i] = req.videoId
    /\ Len(users[req.token].favoriteVideos) = 2

----------------------------------------------------------------------------
(* Rating statistics and answers: C15 checked under SpecStats, C16 under
   SpecRating *)

\* C15: getRatingStats returns for each level k in 1..5 the number of ratings
\* entries whose value is k, the five counts add up to totalRatings, which is
\* the number of entries, and for a video without ratings averageRating is 0,
\* the five counts are 0 and the five percentages are "0.0".
C15_StatsCountEveryRating ==
    (req.op = "getRatingStats" /\ res.status = 200)
       => LET ratings == videos[req.videoId].ratings
              count(k) == Cardinality({i \in 1..Len(ratings) :
                                          ratings[i].rating = Num(k)})
              reported(k) == res.body.distribution[Num(k)]
          IN  /\ \A k \in 1..5 : reported(k) = [nan |-> FALSE, value |-> count(k)]
              /\ res.body.totalRatings = Len(ratings)
              /\ reported(1).value + reported(2).value + reported(3).value
                    + reported(4).value + reported(5).value = res.body.totalRatings
              /\ Len(ratings) = 0
                    => /\ res.body.averageRating = Num(0)
                       /\ \A k \in 1..5 :
                            /\ reported(k).value = 0
                            /\ res.body.distributionPercentage[Num(k)] = Decimal1(0, 0)

\* C16: a rating of 5 by one user on a video without ratings followed by a
\* rating of 3 by a second user gives averageRating 4 and totalRatings 2, and
\* every addOrUpdateRating answer reports the averageRating and the number of
\* ratings of the document that the request has saved.
C16_AnswerReportsSaved ==
    (req.op = "addOrUpdateRating" /\ res.status = 200)
       => LET video == videos[req.videoId]
          IN  /\ res.body.averageRating = video.averageRating
              /\ res.body.totalRatings = Len(video.ratings)
              /\ res.body.userRating = req.rating.value
              /\ (/\ Len(video.ratings) = 2
                  /\ video.ratings[1].rating = Num(5)
                  /\ video.ratings[2].userId = req.token
                  /\ req.rating = Given(Num(3)))
                 => /\ res.body.averageRating = Num(4)
                    /\ res.body.totalRatings = 2

\* 5 by the first user, then 3 by the second
C16_Witness ==
    /\ req.op = "addOrUpdateRating"
    /\ res.status = 200
    /\ res.body.message = "Calificación agregada"
    /\ req.rating = Given(Num(3))
    /\ res.body.averageRating = Num(4)
    /\ res.body.totalRatings = 2
    /\ videos[req.videoId].ratings[1].rating = Num(5)
    /\ videos[req.videoId].ratings[1].userId # req.token

----------------------------------------------------------------------------
(* Comments: C17 checked under SpecComments, C18 under SpecRename *)

\* C17: an editComment that succeeds changes the text of the comment with the
\* given id and nothing else: its id, userId, userName and createdAt, every
\* other comment, their order and totalComments stay as they were.  A
\* deleteComment that succeeds removes the comment with the given id, leaves
\* the other comments as they were and answers the former count minus 1.
C17_CommentFrame ==
    [][(req'.op \in {"editComment", "deleteComment"} /\ res'.status = 200)
       => LET old == videos[req'.videoId].comments
              new == videos'[req'.videoId].comments
              Other(c) == c.id # req'.commentId
          IN  /\ users' = users
              /\ \A v \in DOMAIN videos \ {req'.videoId} : videos'[v] = videos[v]
              /\ videos'[req'.videoId] = [videos[req'.videoId] EXCEPT !.comments = new]
              /\ \E i \in 1..Len(old) : old[i].id = req'.commentId
              /\ req'.op = "editComment"
                    => /\ Len(new) = Len(old)
                       /\ res'.body.totalComments = Len(old)
                       /\ \A i \in 1..Len(old) :
                            IF Other(old[i])
                            THEN new[i] = old[i]
                            ELSE /\ new[i].id = old[i].id
                                 /\ new[i].userId = old[i].userId
                                 /\ new[i].userName = old[i].userName
                                 /\ new[i].createdAt = old[i].createdAt
                                 /\ new[i].text = Text(0, req'.text.core, 0)
                                 /\ res'.body.comment = new[i]
              /\ req'.op = "deleteComment"
                    => /\ new = SelectSeq(old, Other)
                       /\ Len(new) = Len(old) - 1
                       /\ res'.body.totalComments = Len(old) - 1]_vars

\* the first of two comments has been removed and the second is still there
C17_Witness ==
    /\ req.op = "deleteComment"
    /\ res.status = 200
    /\ res.body.totalComments = 1
    /\ req.commentId = 1
    /\ Len(videos[req.videoId].comments) = 1
    /\ videos[req.videoId].comments[1].id = 2

\* C18: the userName stored in a comment is the name the author had when
\* addComment ran; an updateUser that renames the author leaves every comment
\* of every video, its userName included, as it was.
C18_UserNameIsSnapshot ==
    [][/\ req'.op = "updateUser" => videos' = videos
       /\ (req'.op = "addComment" /\ res'.status = 201)
          => LET new == videos'[req'.videoId].comments
             IN  /\ Len(new) = Len(videos[req'.videoId].comments) + 1
                 /\ new[Len(new)].userId = req'.token
                 /\ new[Len(new)].userName = users[req'.token].name
                 /\ res'.body.comment.userName = users[req'.token].name]_vars

\* the author of a comment has taken another name and the comment shows the
\* former one
C18_Witness ==
    /\ req.op = "updateUser"
    /\ res.status = 200
    /\ req.name.present
    /\ users[req.id].name = req.name.value
    /\ \E v \in DOMAIN videos :
          \E i \in 1..Len(videos[v].comments) :
              /\ videos[v].comments[i].userId = req.id
              /\ videos[v].comments[i].userName = UserName(req.id)
              /\ videos[v].comments[i].userName # users[req.id].name

----------------------------------------------------------------------------
(* Authentication gate: C19 checked under SpecGate *)

\* C19: toggleLike, addOrUpdateRating, deleteRating, addComment, editComment
\* and deleteComment change users or videos only for a request whose bearer
\* credential verifies and belongs to a user that exists when the request
\* arrives; a request without credential, with a credential that does not
\* verify or with the credential of a removed user is answered 401 and
\* changes no user and no video.
C19_OnlyAuthenticatedChange ==
    [][req'.op \in (GatedOps \cup UnroutedOps) \ {"getUserRating"}
       => LET verifies == jwtVerify(req'.token)
              exists == req'.token \in DOMAIN users
          IN  /\ (res'.status # 0 /\ ~(verifies /\ exists))
                    => /\ res'.status = 401
                       /\ users' = users
                       /\ videos' = videos
              /\ (verifies /\ exists) => res'.status # 401
              /\ (users' # users \/ videos' # videos) => verifies /\ exists]_vars

\* a user who has rated removes the account and then presents the credential
C19_Witness ==
    /\ req.op \in (GatedOps \cup UnroutedOps) \ {"getUserRating"}
    /\ res = Error(401, "Token inválido.")
    /\ req.token \in UserIds \ DOMAIN users
    /\ \E v \in DOMAIN videos :
          \E i \in 1..Len(videos[v].ratings) : videos[v].ratings[i].userId = req.token

----------------------------------------------------------------------------
(* Accounts: C20 checked under SpecAccounts *)

\* C20: no two user documents have the same email.  A register with an email
\* that a user holds is answered 400 and creates no user, and no sequence of
\* register and updateUser requests, two registers for one email that both
\* pass the check before either saves included, ends with two users of equal
\* email.
C20_EmailUnique ==
    [][/\ \A a, b \in DOMAIN users' : users'[a].email = users'[b].email => a = b
       /\ \A c \in NewUserIds :
            (calls[c] = Idle /\ calls'[c] # Idle)
               => \A u \in DOMAIN users : users[u].email # calls'[c].email
       /\ (req'.op = "register" /\ calls' = calls)
            => /\ res'.status = 400
               /\ users' = users
       /\ (/\ \E c \in NewUserIds : calls[c] # Idle /\ calls'[c] = Idle
           /\ req'.email \in Emails)
            => \/ /\ res'.status = 201
                  /\ \E c \in DOMAIN users' \ DOMAIN users :
                        /\ users'[c].email = req'.email
                        /\ DOMAIN users' = DOMAIN users \cup {c}
               \/ /\ res'.status = 500
                  /\ users' = users
                  /\ \E u \in DOMAIN users : users[u].email = req'.email]_vars

\* two registers for one email have both passed the check; the first has
\* created the account and the second was refused by the index
C20_Witness ==
    /\ req.op = "register"
    /\ res = InternalError
    /\ req.email \in Emails
    /\ \E c \in NewUserIds \cap DOMAIN users : users[c].email = req.email
    /\ Cardinality(DOMAIN users) = 3

----------------------------------------------------------------------------
(* Password reset: C21, C27 checked under SpecReset *)

HoldsToken(store, t) ==
    \E u \in DOMAIN store : store[u].resetPasswordToken = Given(sha256(t))

\* C21: a reset token leads to at most one successful resetPassword.  A
\* resetPassword goes on to its save only with a token whose hash a user
\* holds with an expiry later than the Date.now() the request has read; its
\* save answers 200 for a token that a user still holds, clears that user's
\* token and expiry and stores the new password, so that no second
\* resetPassword succeeds with the token; a token that no user holds never
\* is held again (the next forgotPassword for the user replaces it by a new
\* one), and a resetPassword with a token that is not held or whose expiry
\* has passed answers 400 and changes no user.
C21_TokenUsedOnce ==
    [][/\ \A t \in 1..MaxResetTokens :
            (/\ t <= randomBytes
             /\ ~HoldsToken(users, t)
             /\ \A c \in Invocations :
                   (calls[c].pc = "save" /\ calls[c].req.op = "forgotPassword")
                      => calls[c].saved.resetPasswordToken # Given(sha256(t)))
               => ~HoldsToken(users', t)
       /\ \A u \in DOMAIN users :
            (req'.op = "forgotPassword" /\ u \in DOMAIN users'
                /\ users'[u] # users[u])
               => users'[u].resetPasswordToken
                     \in {NoResetToken, Given(sha256(randomBytes))}
       /\ req'.op = "resetPassword"
            => LET wellFormed == /\ req'.token.present
                                 /\ Len(req'.newPassword) >= PasswordMinlength
                   held(at) ==
                       \E u \in DOMAIN users :
                          /\ users[u].resetPasswordToken = Given(sha256(req'.token.value))
                          /\ users[u].resetPasswordExpires.value > at
               IN  /\ calls' = calls
                        => /\ ~wellFormed
                           /\ res'.status = 400
                           /\ users' = users
                   /\ \A c \in Invocations :
                         calls'[c] # calls[c]
                            => /\ calls[c] = Idle
                                    => /\ wellFormed
                                       /\ res'.status = 0
                                       /\ users' = users
                               /\ calls[c].pc = "findOne"
                                    => /\ users' = users
                                       /\ IF held(calls[c].at) THEN res'.status = 0
                                          ELSE res'.status = 400
                               /\ calls[c].pc = "save"
                                    => /\ res'.status = 200
                                       /\ ~HoldsToken(users', req'.token.value)
                                       /\ \E u \in DOMAIN users :
                                             /\ users[u].resetPasswordToken
                                                   = Given(sha256(req'.token.value))
                                             /\ users'[u].password
                                                   = bcryptHash(req'.newPassword)
                                             /\ users'[u].resetPasswordExpires
                                                   = NoResetExpires
                                             /\ \A other \in DOMAIN users \ {u} :
                                                   users'[other] = users[other]]_vars

\* C27: forgotPassword answers an email of a registered user exactly as it
\* answers an email of no user, whether or not the email could be sent.
C27_ForgotPasswordSameAnswer ==
    (req.op = "forgotPassword" /\ req.email.present /\ res.status # 0)
       => res = ForgotPasswordMessage

----------------------------------------------------------------------------
(* Ingestion: C22 checked under SpecIngest *)

\* C22: ingestion leaves every stored video as it was, and users too; each
\* video it creates has an external id that no stored video had, likesCount
\* 0, no ratings, no comments and averageRating 0, and no two videos it
\* creates share an external id.
C22_IngestionKeepsEngagement ==
    [][req'.op = "fetchVideos"
        => /\ users' = users
           /\ \A v \in DOMAIN videos :
                v \in DOMAIN videos' /\ videos'[v] = videos[v]
           /\ \A v \in DOMAIN videos' \ DOMAIN videos :
                /\ videos'[v].likesCount = 0
                /\ videos'[v].ratings = <<>>
                /\ videos'[v].comments = <<>>
                /\ videos'[v].averageRating = Num(0)
                /\ \A w \in DOMAIN videos' \ {v} :
                      videos'[w].pexelsId # videos'[v].pexelsId]_vars

\* a page that names the video v1 again and a new one was ingested while v1
\* had a like, a rating and a comment
C22_Witness ==
    /\ req.op = "fetchVideos"
    /\ res.status = 200
    /\ \E i \in DOMAIN req.videos : req.videos[i].id = SeedPexelsId
    /\ \E v \in NewVideoIds \cap DOMAIN videos :
          \E i \in DOMAIN req.videos : req.videos[i].id = videos[v].pexelsId
    /\ videos["v1"].likesCount > 0
    /\ videos["v1"].ratings # <<>>
    /\ videos["v1"].comments # <<>>
    /\ videos["v1"].averageRating = Num(5)

----------------------------------------------------------------------------
(* Validation order: C23 checked under SpecValidation *)

\* C23: addOrUpdateRating, addComment and editComment answer 400 exactly when
\* the body is invalid (a rating that is missing, 0 or outside 1..5; a text
\* that is missing, blank or longer than the maximum), whatever the store
\* holds: the video may be missing, the comment unknown or of another author.
\* A request answered 400 changes nothing.
C23_InvalidArgumentFirst ==
    [][(/\ req'.op \in {"addOrUpdateRating", "addComment", "editComment"}
        /\ res'.status \notin {0, 401})
       => LET invalid ==
                 IF req'.op = "addOrUpdateRating"
                 THEN \/ ~req'.rating.present
                      \/ NumLess(req'.rating.value, Num(RatingMin))
                      \/ NumLess(Num(RatingMax), req'.rating.value)
                 ELSE \/ ~req'.text.present
                      \/ req'.text.core = 0
                      \/ Length(req'.text) > CommentTextMaxlength
          IN  /\ res'.status = 400 <=> invalid
              /\ res'.status = 400
                    => /\ videos' = videos
                       /\ users' = users
                       /\ nextCommentId' = nextCommentId]_vars

\* a rating of 6 or a text longer than the maximum was refused with 400 for a
\* video that does not exist
C23_Witness ==
    /\ res.status = 400
    /\ req.op \in {"addOrUpdateRating", "editComment"}
    /\ req.videoId = MissingVideoId
    /\ req.op = "addOrUpdateRating" => req.rating = Given(Num(6))
    /\ req.op = "editComment" => req.text = Text(0, CommentTextMaxlength + 1, 0)

----------------------------------------------------------------------------
(* Missing comments: C24 checked under SpecComments *)

\* C24: editComment and deleteComment answer 404 and change nothing when the
\* video is unknown or no comment of the video has the commentId, whoever
\* the caller is.
C24_NotFoundFirst ==
    [][(/\ req'.op \in {"editComment", "deleteComment"}
        /\ res'.status \notin {0, 401}
        /\ \/ req'.videoId \notin DOMAIN videos
           \/ \A i \in 1..Len(videos[req'.videoId].comments) :
                 videos[req'.videoId].comments[i].id # req'.commentId)
       => /\ res'.status = 404
          /\ videos' = videos]_vars

\* C24 (amended): such a request changes nothing; deleteComment answers 404,
\* and editComment answers 404 when its text is valid and 400 when the text
\* is missing, blank or longer than the maximum.  The caller's authorship of
\* other comments plays no part: the answer is never 403.
C24_NotFoundAfterValidation ==
    [][(/\ req'.op \in {"editComment", "deleteComment"}
        /\ res'.status \notin {0, 401}
        /\ \/ req'.videoId \notin DOMAIN videos
           \/ \A i \in 1..Len(videos[req'.videoId].comments) :
                 videos[req'.videoId].comments[i].id # req'.commentId)
       => LET invalidText ==
                 /\ req'.op = "editComment"
                 /\ \/ ~req'.text.present
                    \/ req'.text.core = 0
                    \/ Length(req'.text) > EditCommentMaxLength
          IN  /\ res'.status = IF invalidText THEN 400 ELSE 404
              /\ ~invalidText
                    => res'.body.error = IF req'.videoId \notin DOMAIN videos
                                         THEN "Video no encontrado"
                                         ELSE "Comentario no encontrado"
              /\ videos' = videos
              /\ users' = users]_vars

\* a caller who wrote none of the comments of the video has asked for a
\* comment id that the video does not have, and the answer is 404
C24_Witness ==
    /\ req.op \in {"editComment", "deleteComment"}
    /\ res = Error(404, "Comentario no encontrado")
    /\ req.videoId \in DOMAIN videos
    /\ videos[req.videoId].comments # <<>>
    /\ \A i \in 1..Len(videos[req.videoId].comments) :
          /\ videos[req.videoId].comments[i].userId # req.token
          /\ videos[req.videoId].comments[i].id # req.commentId

----------------------------------------------------------------------------
(* Partial failure of a like: C25 checked under SpecLikeFailure *)

\* C25: a toggleLike that has saved the user answers 500 when the save of
\* the video fails.  The stored user then has the toggled list, the stored
\* likesCount is the one the request loaded, the failing step changes neither
\* document and ends the request, and when likesCount was the number of
\* likers before the request it is not afterwards.
C25_FailureBetweenSaves ==
    [][\A c \in Invocations :
         (/\ calls[c].pc = "save"
          /\ calls[c].req.op = "toggleLike"
          /\ calls'[c] = Idle
          /\ res'.status # 200)
            => LET v == calls[c].req.videoId
                   caller == calls[c].req.token
                   likers == Cardinality({u \in DOMAIN users' :
                                             alreadyLiked(users'[u], v)})
                   before == IF calls[c].result.liked THEN likers - 1 ELSE likers + 1
               IN  /\ res' = InternalError
                   /\ req' = [op |-> "toggleLike", token |-> caller, videoId |-> v]
                   /\ users' = users
                   /\ videos' = videos
                   /\ alreadyLiked(users'[caller], v) = calls[c].result.liked
                   /\ videos'[v].likesCount = calls[c].video.likesCount
                   /\ calls[c].video.likesCount = before
                        => videos'[v].likesCount # likers]_vars

\* the first like of the video has failed between its saves: the user likes
\* the video and likesCount is 0
C25_Witness ==
    /\ req.op = "toggleLike"
    /\ res = InternalError
    /\ NoneInFlight
    /\ alreadyLiked(users[req.token], "v1")
    /\ \A u \in DOMAIN users \ {req.token} : ~alreadyLiked(users[u], "v1")
    /\ videos["v1"].likesCount = 0

----------------------------------------------------------------------------
(* Overlapping ratings: C26, C29 checked under SpecRatingSteps *)

\* C26: once the overlapping addOrUpdateRating requests have all saved, a
\* user has at most one entry in the ratings of a video, the entry of the
\* caller answered last holds the value of that request, and averageRating
\* is the mean of the stored ratings.
C26_SameUserLastSaveWins ==
    NoneInFlight
       => \A v \in DOMAIN videos :
            LET ratings == videos[v].ratings
            IN  /\ \A i, j \in 1..Len(ratings) :
                      ratings[i].userId = ratings[j].userId => i = j
                /\ (req.op = "addOrUpdateRating" /\ res.status = 200 /\ req.videoId = v)
                      => \E i \in 1..Len(ratings) :
                            /\ ratings[i].userId = req.token
                            /\ ratings[i].rating = req.rating.value
                /\ ratings # <<>>
                      => videos[v].averageRating
                            = NumDivInt(SumRatings(ratings), Len(ratings))

\* C29: a rating that was answered 200 stays: a save removes no user's entry
\* and leaves the caller's entry with the value sent; and once the overlapping
\* requests of different users have all saved, averageRating is the mean of
\* the stored ratings.
C29_NoRatingLost ==
    [][\A v \in DOMAIN videos :
         LET old == videos[v].ratings
             new == videos'[v].ratings
         IN  /\ \A i \in 1..Len(old) :
                   \E j \in 1..Len(new) : new[j].userId = old[i].userId
             /\ (req'.op = "addOrUpdateRating" /\ res'.status = 200
                   /\ req'.videoId = v /\ calls' # calls)
                   => \E j \in 1..Len(new) :
                         /\ new[j].userId = req'.token
                         /\ new[j].rating = req'.rating.value
             /\ (/\ \A c \in CallIds : calls'[c] = Idle
                 /\ new # <<>>
                 /\ \A i, j \in 1..Len(new) : new[i].userId = new[j].userId => i = j)
                   => videos'[v].averageRating
                         = NumDivInt(SumRatings(new), Len(new))]_vars

----------------------------------------------------------------------------
(* Reads: C28 checked under SpecReads *)

\* C28: getComments, getRatingStats and getUserRating, whatever their
\* parameters and their answer, leave every video, the order of its comments
\* included, and every user as they were.
C28_ReadsChangeNothing ==
    [][req'.op \in {"getComments", "getRatingStats", "getUserRating"}
        => /\ videos' = videos
           /\ users' = users
           /\ nextCommentId' = nextCommentId]_vars

\* getComments has answered with the newer comment first while the stored
\* list still has the older one first
C28_Witness ==
    /\ req.op = "getComments"
    /\ res.status = 200
    /\ Len(res.body.comments) = 2
    /\ Len(videos[req.videoId].comments) = 2
    /\ res.body.comments[1] = videos[req.videoId].comments[2]
    /\ res.body.comments[2] = videos[req.videoId].comments[1]
    /\ videos[req.videoId].comments[1].createdAt
          < videos[req.videoId].comments[2].createdAt

----------------------------------------------------------------------------
(* Overlapping likes: C30 checked under SpecLikeSteps *)

\* C30: likesCount is never negative, and once every toggleLike has
\* answered, and no account has been deleted, the likesCount of a video is
\* the number of users whose liked list holds the video.
C30_OverlappingLikesCounted ==
    \A v \in DOMAIN videos :
        /\ videos[v].likesCount >= 0
        /\ (NoneInFlight /\ DOMAIN users = UserIds)
              => videos[v].likesCount
                    = Cardinality({u \in DOMAIN users : alreadyLiked(users[u], v)})

====
